---- MODULE Spec2Model ----
(***************************************************************************)
(* Model of the aopt / getopt-rs argument parsing engine:                  *)
(*   - DelayPolicy::parse   (aopt/src/policy/policy_delay.rs)              *)
(*   - ForwardPolicy::parse (aopt/src/parser/forward_policy.rs)            *)
(*   - CheckService         (aopt/src/ser/check.rs)                        *)
(*   - ValValidator::bool   (aopt/src/opt/valid.rs)                        *)
(*   - ValStorer::validator (aopt/src/value/storer.rs)                     *)
(* Tokens, names and raw values are sequences of one-character strings, so *)
(* that splitting a token into prefix, negation marker, name and value is  *)
(* computed and not assumed.  An Option<T> is a sequence of length 0 or 1. *)
(***************************************************************************)
EXTENDS Integers, Sequences, FiniteSets, TLC

VARIABLES
    policy,     \* the policy that runs the parse: "delay" or "forward"
    set,        \* the option set: sequence of option configurations (uid = position)
    strict,     \* the strict flag of the policy
    setted,     \* uid -> the "set" flag of the option
    value,      \* uid -> the value slot of the option
    args,       \* the argument vector of the running parse
    pc,         \* position of the running parse inside parse
    idx,        \* loop index of the loop the parse is in
    noa,        \* noa_args: the non-option arguments collected so far
    contexts,   \* DelayPolicy.contexts: the saved match contexts
    invReg,     \* TRUE while the InvokeService is registered in Services
    ret,        \* result of the parse: <<>> while running, <<"ok">> or <<error kind>>
    log,        \* history: checkpoints run and handlers invoked by the running parse
    tokClass,   \* history: what the option loop did with each token
    parses,     \* number of parses started with this policy object
    stale,      \* history: the contexts the policy held when the running parse began
    store,      \* the ValStorer under test: validator, action, slot, last result
    commit,     \* the commit object under test, with the insertions it made
    opts,       \* the option objects under test, in insertion order
    getopt      \* the running getopt_impl call: parsers left, outcomes, result

vars == <<policy, set, strict, setted, value, args, pc, idx, noa, contexts, invReg,
          ret, log, tokClass, parses, stale, store, commit, opts, getopt>>

parseVarsNoCommit == <<policy, set, strict, setted, value, args, pc, idx, noa, contexts,
                       invReg, ret, log, tokClass, parses, stale>>

parseVars == <<policy, set, strict, setted, value, args, pc, idx, noa, contexts, invReg,
               ret, log, tokClass, parses, stale, commit, opts, getopt>>

----------------------------------------------------------------------------
(* Bounds of the model *)

\* longest argument vector handed to parse
MaxArgs == 2

\* number of parses run with one policy object and one Services object
MaxParses == 1

\* most values an append action collects in one value slot
MaxSlot == 3

\* highest count a count action is driven to
MaxCount == 3

\* number of checkpoint calls made in a row on one option set
MaxRuns == 2

\* number of invocations of wrapped callbacks on one option set
MaxInvokes == 2

\* number of operations applied to one commit and its configuration
MaxOps == 3

\* most options inserted into the set of option objects
MaxOpts == 2

\* number of calls made on the option objects of one set
MaxCalls == 3

\* highest uid a caller hands to set_uid
MaxUid == 3

\* most parsers handed to one call of getopt_impl
MaxParsers == 3

----------------------------------------------------------------------------
(* Generic helpers *)

None == <<>>

Some(v) == <<v>>

IsSome(o) == Len(o) > 0

SetMin(S) == CHOOSE m \in S : \A n \in S : m <= n

StartsWith(t, p) == Len(t) >= Len(p) /\ SubSeq(t, 1, Len(p)) = p

----------------------------------------------------------------------------
(* Program constants *)

BOOL_TRUE == <<"t", "r", "u", "e">>

BOOL_FALSE == <<"f", "a", "l", "s", "e">>

\* usize::MAX, represented by the largest integer the checker handles
MAX_INDEX == 2147483647

\* the recognised prefixes, longest first
Prefixes == << <<"-", "-">>, <<"-">>, <<"+">> >>

\* opt_styles of DelayPolicy::parse, in the order the loop tries them
opt_styles == <<"EqualWithValue", "Argument", "Boolean", "CombinedOption", "EmbeddedValue">>

----------------------------------------------------------------------------
(* Option model *)

\* Index specifications of positional options
IdxNull == [k |-> "Null", n |-> 0, l |-> {}]

Forward(n) == [k |-> "Forward", n |-> n, l |-> {}]

Backward(n) == [k |-> "Backward", n |-> n, l |-> {}]

List(l) == [k |-> "List", n |-> 0, l |-> l]

Greater(n) == [k |-> "Greater", n |-> n, l |-> {}]

AnyWhere == [k |-> "AnyWhere", n |-> 0, l |-> {}]

\* One configured option.  ty is the type tag (s, b, c, p, m); only is the
\* raw value the option's value check accepts (None: any value); h tells
\* whether a user handler is registered for it in the InvokeService.
Opt(name, ty, deact, ix, only, h) ==
    [name |-> name, pre |-> IF ty \in {"s", "b"} THEN <<"-">> ELSE <<>>,
     ty |-> ty, deact |-> deact, force |-> FALSE, idx |-> ix, only |-> only, h |-> h]

\* Opt::mat_style: the option styles a type family accepts
mat_style(o, sty) ==
    CASE o.ty = "s" -> sty = "Argument"
      [] o.ty = "b" -> sty \in {"Boolean", "Combined"}
      [] o.ty = "c" -> sty = "Cmd"
      [] o.ty = "p" -> sty = "Pos"
      [] o.ty = "m" -> sty = "Main"
      [] OTHER -> FALSE

\* Opt::valid: a force-required option must have been set
valid(o, isSet) == (~o.force) \/ isSet

\* Index::calc_index(usize::MAX, 1) as the CheckService calls it: the fixed
\* position a Forward or Backward index resolves to
calc_index(ix) ==
    CASE ix.k = "Forward" -> Some(ix.n)
      [] ix.k = "Backward" -> Some(MAX_INDEX - ix.n + 1)
      [] OTHER -> None

\* Opt::mat_idx: does a Pos option with index ix accept the NOA at position
\* cur of total
mat_idx(ix, cur, total) ==
    CASE ix.k = "Forward" -> cur = ix.n
      [] ix.k = "Backward" -> ix.n <= total /\ cur = total - ix.n + 1
      [] ix.k = "List" -> cur \in ix.l
      [] ix.k = "Greater" -> cur > ix.n
      [] ix.k = "AnyWhere" -> TRUE
      [] OTHER -> FALSE

\* Variant: the validator of a deactivate-style option also takes the plain token
ValValidator_boolBothForms(deactivate_style, val, disable) ==
    /\ IsSome(val)
    /\ \/ (deactivate_style /\ disable /\ val[1] = BOOL_FALSE)
       \/ (~disable /\ val[1] = BOOL_TRUE)

\* ValValidator::bool(deactivate_style) applied to (val, disable)
ValValidator_bool(deactivate_style, val, disable) ==
    /\ IsSome(val)
    /\ \/ (deactivate_style /\ disable /\ val[1] = BOOL_FALSE)
       \/ (~deactivate_style /\ ~disable /\ val[1] = BOOL_TRUE)

\* StrOpt::pri_check: a string option needs an argument
StrOpt_pri_check(arg) == IsSome(arg)

\* Opt::check_val of the type families
check_val(o, arg, disable) ==
    CASE o.ty = "s" -> StrOpt_pri_check(arg)
      [] o.ty = "b" -> ValValidator_bool(o.deact, arg, disable)
      [] o.ty = "p" -> IsSome(arg) /\ (IsSome(o.only) => arg[1] = o.only[1])
      [] OTHER -> TRUE

----------------------------------------------------------------------------
(* Splitting of one token: ArgParser::parse *)

ParseFail == [ok |-> FALSE, pre |-> <<>>, name |-> <<>>, val |-> None, dsb |-> FALSE]

ArgParser_parse(t) ==
    LET ps == {i \in 1..Len(Prefixes) : StartsWith(t, Prefixes[i])}
    IN  IF ps = {} THEN ParseFail
        ELSE LET p == Prefixes[SetMin(ps)]
                 rest == SubSeq(t, Len(p) + 1, Len(t))
                 dsb == Len(rest) > 0 /\ rest[1] = "/"
                 body == IF dsb THEN Tail(rest) ELSE rest
                 eqs == {i \in 1..Len(body) : body[i] = "="}
                 name == IF eqs = {} THEN body ELSE SubSeq(body, 1, SetMin(eqs) - 1)
                 val == IF eqs = {} THEN None
                        ELSE Some(SubSeq(body, SetMin(eqs) + 1, Len(body)))
             IN  IF name = <<>> THEN ParseFail
                 ELSE [ok |-> TRUE, pre |-> p, name |-> name, val |-> val, dsb |-> dsb]

----------------------------------------------------------------------------
(* Style guessing: OptGuess::guess *)

Mat(sty, pre, name, arg, dsb, consume) ==
    [sty |-> sty, pre |-> pre, name |-> name, arg |-> arg, dsb |-> dsb, consume |-> consume]

ImplicitBool(dsb) == Some(IF dsb THEN BOOL_FALSE ELSE BOOL_TRUE)

\* The candidate matches a user style proposes for the split token clopt
\* with lookahead next (None at the end of the argument vector); the empty
\* sequence is "no process".
OptGuess_guess(style, clopt, next) ==
    CASE style = "EqualWithValue" ->
            IF IsSome(clopt.val)
            THEN <<Mat("Argument", clopt.pre, clopt.name, clopt.val, clopt.dsb, FALSE)>>
            ELSE <<>>
      [] style = "Argument" ->
            IF ~IsSome(clopt.val) /\ IsSome(next)
            THEN <<Mat("Argument", clopt.pre, clopt.name, next, clopt.dsb, TRUE)>>
            ELSE <<>>
      [] style = "Boolean" ->
            IF ~IsSome(clopt.val)
            THEN <<Mat("Boolean", clopt.pre, clopt.name, ImplicitBool(clopt.dsb), clopt.dsb, FALSE)>>
            ELSE <<>>
      [] style = "CombinedOption" ->
            IF ~IsSome(clopt.val) /\ Len(clopt.name) > 1
            THEN [j \in 1..Len(clopt.name) |->
                    Mat("Combined", clopt.pre, <<clopt.name[j]>>,
                        ImplicitBool(clopt.dsb), clopt.dsb, FALSE)]
            ELSE <<>>
      [] style = "EmbeddedValue" ->
            IF ~IsSome(clopt.val) /\ Len(clopt.name) >= 2
            THEN <<Mat("Argument", clopt.pre, <<clopt.name[1]>>,
                       Some(Tail(clopt.name)), clopt.dsb, FALSE)>>
            ELSE <<>>
      [] OTHER -> <<>>

\* OptMatch::process: does option o accept the candidate match m
OptMatch_process(o, m) ==
    /\ mat_style(o, m.sty)
    /\ o.name = m.name
    /\ o.pre = m.pre
    /\ check_val(o, m.arg, m.dsb)

RECURSIVE RunKeys(_, _, _, _)
\* process_opt: the options are offered to the process in set order; each
\* option takes the first candidate match that is still free and that it
\* accepts.  asg[j] is the uid that took candidate j (0: nobody yet).
RunKeys(S, proc, u, asg) ==
    IF u > Len(S) THEN asg
    ELSE LET free == {j \in 1..Len(proc) : asg[j] = 0 /\ OptMatch_process(S[u], proc[j])}
         IN  RunKeys(S, proc, u + 1,
                     IF free = {} THEN asg ELSE [asg EXCEPT ![SetMin(free)] = u])

process_opt(S, proc) == RunKeys(S, proc, 1, [j \in 1..Len(proc) |-> 0])

\* Process::is_mat: every candidate of the process found its option
is_mat(asg) == \A j \in 1..Len(asg) : asg[j] # 0

\* Process::consume: a matched candidate took the following token as value
proc_consume(proc, asg) == \E j \in 1..Len(proc) : asg[j] # 0 /\ proc[j].consume

\* The CtxSaver of candidate j
Saver(proc, asg, j, tok) ==
    [uid |-> asg[j], tok |-> tok, arg |-> proc[j].arg, dsb |-> proc[j].dsb, sty |-> proc[j].sty]

RECURSIVE SaversFrom(_, _, _, _, _)
\* the CtxSavers process_opt returns, in set order of the matched options
SaversFrom(S, proc, asg, tok, u) ==
    IF u > Len(S) THEN <<>>
    ELSE LET js == {j \in 1..Len(asg) : asg[j] = u}
         IN  (IF js = {} THEN <<>> ELSE <<Saver(proc, asg, SetMin(js), tok)>>)
             \o SaversFrom(S, proc, asg, tok, u + 1)

----------------------------------------------------------------------------
(* The option loop of the policy: one token against the styles *)

NoMatch == [matched |-> FALSE, consume |-> FALSE, ctx |-> <<>>, sty |-> "", tried |-> <<>>]

\* One pass of the body of `for style in opt_styles` for style number k on
\* the loop state st: the process is run, matched and consume are raised.
StyleBody(S, clopt, next, tok, k, st) ==
    LET proc == OptGuess_guess(opt_styles[k], clopt, next)
        asg == process_opt(S, proc)
        m == is_mat(asg)
    IN  IF Len(proc) = 0 THEN st
        ELSE [matched |-> st.matched \/ m,
              consume |-> st.consume \/ proc_consume(proc, asg),
              ctx |-> IF m THEN st.ctx \o SaversFrom(S, proc, asg, tok, 1) ELSE st.ctx,
              sty |-> IF m THEN opt_styles[k] ELSE st.sty,
              tried |-> Append(st.tried, opt_styles[k])]

RECURSIVE StyleLoopNoBreak(_, _, _, _, _, _)
\* Variant: the loop over the styles without the break
StyleLoopNoBreak(S, clopt, next, tok, k, st) ==
    IF k > Len(opt_styles) THEN st
    ELSE StyleLoopNoBreak(S, clopt, next, tok, k + 1, StyleBody(S, clopt, next, tok, k, st))

RECURSIVE StyleLoop(_, _, _, _, _, _)
\* `for style in opt_styles.iter() { ... if matched { break; } }`
StyleLoop(S, clopt, next, tok, k, st) ==
    IF k > Len(opt_styles) THEN st
    ELSE LET st1 == StyleBody(S, clopt, next, tok, k, st)
         IN  IF st1.matched THEN st1 ELSE StyleLoop(S, clopt, next, tok, k + 1, st1)

----------------------------------------------------------------------------
(* CheckService *)

HasStyle(S, sty) == {u \in 1..Len(S) : mat_style(S[u], sty)}

\* Variant: with a Cmd no force-required Pos at all is allowed
pre_checkAnyPos(S) ==
    ~(HasStyle(S, "Cmd") # {} /\ \E u \in HasStyle(S, "Pos") : S[u].force)

\* pre_check: TRUE when it returns Ok
pre_check(S) ==
    LET has_cmd == HasStyle(S, "Cmd") # {}
        index(u) == LET c == calc_index(S[u].idx) IN IF IsSome(c) THEN c[1] ELSE MAX_INDEX
    IN  ~(has_cmd /\ \E u \in HasStyle(S, "Pos") :
                        S[u].idx.k # "Null" /\ index(u) = 1 /\ S[u].force)

\* opt_check: the boolean inside the Ok it returns
opt_check(S, isSet) ==
    \A u \in HasStyle(S, "Argument") \cup HasStyle(S, "Boolean") \cup HasStyle(S, "Combined") :
        valid(S[u], isSet[u])

\* post_check: the boolean inside the Ok it returns
post_check(S, isSet) == \A u \in HasStyle(S, "Main") : valid(S[u], isSet[u])

\* index_map of pos_check: the positions that have an entry
PosIndexes(S) ==
    UNION {LET ix == S[u].idx
           IN  IF ix.k \in {"Forward", "Backward"} THEN {calc_index(ix)[1]}
               ELSE IF ix.k = "List" THEN ix.l ELSE {} : u \in HasStyle(S, "Pos")}

\* index_map of pos_check: the uids pushed under position i
PosGroup(S, i) ==
    {u \in HasStyle(S, "Pos") :
        LET ix == S[u].idx
        IN  \/ ix.k \in {"Forward", "Backward"} /\ calc_index(ix) = Some(i)
            \/ ix.k = "List" /\ i \in ix.l}

\* float_vec of pos_check
PosFloat(S) ==
    {u \in HasStyle(S, "Pos") : S[u].idx.k \in {"Except", "Greater", "Less", "AnyWhere"}}

Invalid(S, isSet, U) == {u \in U : ~valid(S[u], isSet[u])}

\* the group loop of pos_check: is the group under position i accepted
PosGroupValid(S, isSet, i) == \A u \in PosGroup(S, i) : valid(S[u], isSet[u])

\* Variant: only the first unset floating option is reported
pos_checkFirstFloat(S, isSet) ==
    LET bad == {i \in PosIndexes(S) : ~PosGroupValid(S, isSet, i)}
        fl == Invalid(S, isSet, PosFloat(S))
    IN  IF bad # {}
        THEN {[ok |-> FALSE, names |-> Invalid(S, isSet, PosGroup(S, i))] : i \in bad}
        ELSE IF fl # {} THEN {[ok |-> FALSE, names |-> {SetMin(fl)}]}
        ELSE {[ok |-> TRUE, names |-> {}]}

\* pos_check: the results it can return.  The groups are visited in the
\* iteration order of a HashMap, so any unsatisfied group may be the one
\* that is reported; names is the set of uids whose hints are listed.
pos_check(S, isSet) ==
    LET bad == {i \in PosIndexes(S) : ~PosGroupValid(S, isSet, i)}
        fl == Invalid(S, isSet, PosFloat(S))
    IN  IF bad # {}
        THEN {[ok |-> FALSE, names |-> Invalid(S, isSet, PosGroup(S, i))] : i \in bad}
        ELSE IF fl # {} THEN {[ok |-> FALSE, names |-> fl]}
        ELSE {[ok |-> TRUE, names |-> {}]}

\* Variant: every Cmd has to be valid
cmd_checkAll(S, isSet) == \A u \in HasStyle(S, "Cmd") : valid(S[u], isSet[u])

\* cmd_check: TRUE when it returns Ok
cmd_check(S, isSet) ==
    LET cmds == HasStyle(S, "Cmd")
    IN  (\E u \in cmds : valid(S[u], isSet[u])) \/ cmds = {}

----------------------------------------------------------------------------
(* Values and handler invocation *)

Null == [k |-> "null", b |-> FALSE, s |-> <<>>]

BoolVal(b) == [k |-> "bool", b |-> b, s |-> <<>>]

StrVal(s) == [k |-> "str", b |-> FALSE, s |-> s]

\* RawValParser::parse of the type families: raw text to typed value
RawValParser_parse(o, arg) ==
    CASE o.ty = "b" -> IF arg = Some(BOOL_TRUE) THEN BoolVal(TRUE)
                       ELSE IF arg = Some(BOOL_FALSE) THEN BoolVal(FALSE) ELSE Null
      [] o.ty \in {"s", "p"} -> IF IsSome(arg) THEN StrVal(arg[1]) ELSE Null
      [] OTHER -> BoolVal(TRUE)

\* What a handler can do: return a value, return no value, fail.  An option
\* without a user handler gets the default handling, which stores the value.
Outcomes(o) == IF o.h = "user" THEN {"val", "none", "err"} ELSE {"val"}

\* state threaded through a run of invocations
InvState(isSet, val, lg) == [setted |-> isSet, value |-> val, log |-> lg, err |-> FALSE]

Event(e, kind, u, t, r) == [e |-> e, k |-> kind, u |-> u, t |-> t, r |-> r]

\* a call of NOAGuess::guess (gen_nonopt) for the style kind: the NOA index
\* and the length of the NOA list it is given
Guess(kind, i, n) == Event("guess", kind, n, i, "guess")

\* InvokeService::invoke of one saved or fresh context: the handler runs,
\* and a returned value is stored and marks the option as set.  After a
\* failure nothing more is invoked.
invoke_callback(S, st, sv, kind, out) ==
    IF st.err THEN st
    ELSE [setted |-> IF out = "val" THEN [st.setted EXCEPT ![sv.uid] = TRUE] ELSE st.setted,
          value |-> IF out = "val"
                    THEN [st.value EXCEPT ![sv.uid] = RawValParser_parse(S[sv.uid], sv.arg)]
                    ELSE st.value,
          log |-> Append(st.log, Event("invoke", kind, sv.uid, sv.tok, out)),
          err |-> out = "err"]

RECURSIVE InvokeAllRev(_, _, _, _, _, _)
\* Variant: the contexts invoked last to first
InvokeAllRev(S, st, svs, kind, outs, k) ==
    IF k > Len(svs) THEN st
    ELSE LET r == Len(svs) - k + 1
         IN  InvokeAllRev(S, invoke_callback(S, st, svs[r], kind, outs[r]),
                          svs, kind, outs, k + 1)

RECURSIVE InvokeAllButLast(_, _, _, _, _, _)
\* Variant: the loop over the contexts stops one short
InvokeAllButLast(S, st, svs, kind, outs, k) ==
    IF k >= Len(svs) THEN st
    ELSE InvokeAllButLast(S, invoke_callback(S, st, svs[k], kind, outs[k]),
                          svs, kind, outs, k + 1)

RECURSIVE InvokeAll(_, _, _, _, _, _)
\* the contexts svs[k..] invoked in order, each with its outcome outs[k]
InvokeAll(S, st, svs, kind, outs, k) ==
    IF k > Len(svs) THEN st
    ELSE InvokeAll(S, invoke_callback(S, st, svs[k], kind, outs[k]), svs, kind, outs, k + 1)

\* the outcome vectors possible for a run of contexts
OutcomeVecs(S, svs) ==
    {outs \in [1..Len(svs) -> {"val", "none", "err"}] :
        \A k \in 1..Len(svs) : outs[k] \in Outcomes(S[svs[k].uid])}

RECURSIVE NoaSavers(_, _, _, _, _, _)
\* process_non_opt: the contexts of the options that accept the NOA guess
\* (style sty, position cur of total, raw value arg), in set order
NoaSavers(S, sty, arg, cur, total, u) ==
    IF u > Len(S) THEN <<>>
    ELSE LET o == S[u]
             hit == /\ mat_style(o, sty)
                    /\ CASE sty = "Cmd" -> IsSome(arg) /\ o.name = arg[1]
                         [] sty = "Pos" -> mat_idx(o.idx, cur, total) /\ check_val(o, arg, FALSE)
                         [] OTHER -> TRUE
         IN  (IF hit THEN <<[uid |-> u, tok |-> cur, arg |-> arg, dsb |-> FALSE, sty |-> sty]>>
              ELSE <<>>) \o NoaSavers(S, sty, arg, cur, total, u + 1)

----------------------------------------------------------------------------
(* ValStorer: validator, raw value parser and action *)

Digits == <<"0", "1", "2", "3", "4", "5", "6", "7", "8", "9">>

DigitVal(c) == CHOOSE d \in 0..9 : Digits[d + 1] = c

IsDigit(c) == \E d \in 1..10 : Digits[d] = c

RECURSIVE ParseDigits(_, _)
ParseDigits(t, acc) ==
    IF t = <<>> THEN acc ELSE ParseDigits(Tail(t), 10 * acc + DigitVal(Head(t)))

\* U::parse for an integer type: None when the raw value is absent or is
\* not a number
ParseInt(raw) ==
    IF IsSome(raw) /\ raw[1] # <<>> /\ \A i \in 1..Len(raw[1]) : IsDigit(raw[1][i])
    THEN Some(ParseDigits(raw[1], 0))
    ELSE None

\* ValValidator::invoke: the predicate a validator was built from
Validator_invoke(kind, val) ==
    CASE kind = "le2" -> val <= 2
      [] kind = "odd" -> val % 2 = 1
      [] OTHER -> TRUE

\* Action::store1: the action applied to the value slot
Action_store1(act, val, slot) ==
    CASE act = "Set" -> <<val>>
      [] act = "App" -> Append(slot, val)
      [] act = "Cnt" -> <<(IF slot = <<>> THEN 0 ELSE slot[1]) + 1>>
      [] OTHER -> slot

\* The closure ValStorer::validator builds, applied to (raw, act, slot):
\* the result of the call and the slot it leaves
ValStorer_validator(kind, raw, act, slot) ==
    LET val == ParseInt(raw)
    IN  IF ~IsSome(val) THEN [res |-> "parse_error", slot |-> slot]
        ELSE IF Validator_invoke(kind, val[1])
             THEN [res |-> "failure", slot |-> slot]
             ELSE [res |-> "ok", slot |-> Action_store1(act, val[1], slot)]

\* a storer built from the validator kind, its slot still empty; raw, act,
\* prev and res record the last invoke (the raw value and action it was
\* given, the slot before it, its result)
NewStorer(kind) ==
    [valid |-> kind, slot |-> <<>>, prev |-> <<>>, raw |-> None, act |-> "", res |-> "none"]

RawVals == {None, Some(<<"1">>), Some(<<"2">>), Some(<<"1", "2">>), Some(<<"x">>)}

Actions == {"Set", "App", "Cnt"}

----------------------------------------------------------------------------
(* Inputs: option sets and argument vectors *)

SetStrBool ==
    << Opt(<<"a">>, "s", FALSE, IdxNull, None, "user"),
       Opt(<<"b">>, "b", FALSE, IdxNull, None, "default"),
       Opt(<<"m">>, "m", FALSE, IdxNull, None, "user") >>

SetOverlap ==
    << Opt(<<"a">>, "b", FALSE, IdxNull, None, "default"),
       Opt(<<"b">>, "b", FALSE, IdxNull, None, "user"),
       Opt(<<"a">>, "s", FALSE, IdxNull, None, "default") >>

SetCmd ==
    << Opt(<<"b">>, "b", TRUE, IdxNull, None, "default"),
       Opt(<<"x">>, "c", FALSE, Forward(1), None, "default"),
       Opt(<<"p">>, "p", FALSE, Forward(1), None, "user") >>

SetPos ==
    << Opt(<<"p">>, "p", FALSE, Forward(1), None, "default"),
       Opt(<<"q">>, "p", FALSE, Forward(1), Some(<<"x">>), "default"),
       Opt(<<"b">>, "b", FALSE, IdxNull, None, "default") >>

SetCmd2 ==
    << Opt(<<"x">>, "c", FALSE, Forward(1), None, "user"),
       Opt(<<"y">>, "c", FALSE, Forward(1), None, "default"),
       Opt(<<"r">>, "p", FALSE, Forward(2), None, "default") >>

SetPos2 ==
    << Opt(<<"p">>, "p", FALSE, Forward(1), Some(<<"x">>), "default"),
       Opt(<<"r">>, "p", FALSE, Forward(2), Some(<<"x">>), "default"),
       Opt(<<"g">>, "p", FALSE, Greater(2), None, "default") >>

BaseSets == {SetStrBool, SetOverlap, SetCmd, SetPos, SetCmd2, SetPos2}

\* the option set S with exactly the options F marked force-required
WithForce(S, F) == [u \in 1..Len(S) |-> [S[u] EXCEPT !.force = (u \in F)]]

OptSets == {WithForce(S, F) : S \in BaseSets, F \in SUBSET (1..3)}

Tokens ==
    { <<"-", "a">>, <<"-", "a", "=", "x">>, <<"-", "a", "b">>,
      <<"-", "/", "b">>, <<"-", "b">>, <<"x">> }

ArgVecs == UNION {[1..n -> Tokens] : n \in 0..MaxArgs}

----------------------------------------------------------------------------
(* State machine of DelayPolicy::parse and ForwardPolicy::parse *)

Running == <<>>

Ok == <<[kind |-> "ok", names |-> {}]>>

Err(kind, names) == <<[kind |-> kind, names |-> names]>>

Check(e, passed) == Event(e, "check", 0, 0, IF passed THEN "ok" ELSE "violation")

\* what the option loop did with one token: its class (opt, val, noa,
\* unknown), the user style that matched it and the contexts it produced
Class(c, sty, ctx) == [c |-> c, sty |-> sty, ctx |-> ctx]

\* Variant: the strict flag is not consulted
IsUnknownAlways(matched, strictMode) == ~matched

\* `!matched && self.strict()`: an option-looking token nobody matched is fatal
IsUnknown(matched, strictMode) == ~matched /\ strictMode

\* Variant: every matched token skips its successor
SkipNextAlways(matched, consume) == matched

\* `matched && consume`: the following token was taken as value and is skipped
SkipNext(matched, consume) == matched /\ consume

\* no commit object is under test
NoCommit == [live |-> FALSE]

\* no call of getopt_impl is running
NoGetopt == [live |-> FALSE]

\* the two policies
Policies == {"delay", "forward"}

Init ==
    /\ commit = NoCommit
    /\ opts = <<>>
    /\ getopt = NoGetopt
    /\ policy \in Policies
    /\ set \in OptSets
    /\ strict \in BOOLEAN
    /\ setted = [u \in 1..Len(set) |-> FALSE]
    /\ value = [u \in 1..Len(set) |-> Null]
    /\ args = <<>>
    /\ pc = "idle"
    /\ idx = 0
    /\ noa = <<>>
    /\ contexts = <<>>
    /\ invReg = TRUE
    /\ ret = Running
    /\ log = <<>>
    /\ tokClass = <<>>
    /\ parses = 0
    /\ stale = <<>>
    /\ store = NewStorer("none")

\* parse is left with result r
Return(r) ==
    /\ pc' = "done"
    /\ ret' = r

\* Entry of parse.  DelayPolicy: pre_check, then the InvokeService is taken
\* out of ser.  ForwardPolicy: set.reset(), then pre_check.
ParseStart(a) ==
    /\ pc \in {"idle", "done"}
    /\ parses < MaxParses
    /\ parses' = parses + 1
    /\ args' = a
    /\ noa' = <<>>
    /\ tokClass' = <<>>
    /\ idx' = 1
    /\ stale' = contexts
    /\ log' = <<Check("pre_check", pre_check(set))>>
    /\ IF policy = "forward"
       THEN /\ setted' = [u \in 1..Len(set) |-> FALSE]
            /\ value' = [u \in 1..Len(set) |-> Null]
       ELSE UNCHANGED <<setted, value>>
    /\ IF ~pre_check(set)
       THEN Return(Err("con_can_not_insert_pos", {})) /\ UNCHANGED invReg
       ELSE IF policy = "forward"
            THEN pc' = "opts" /\ ret' = Running /\ UNCHANGED invReg
            ELSE IF ~invReg
                 THEN Return(Err("ser_not_found", {})) /\ UNCHANGED invReg
                 ELSE pc' = "opts" /\ ret' = Running /\ invReg' = FALSE
    /\ UNCHANGED <<opts, getopt, commit, policy, set, strict, contexts, store>>

\* the handlers of the contexts svs run in order with outcomes outs, on top
\* of the history lg; nothing is invoked after a failure
RunHandlers(svs, kind, outs, lg) ==
    InvokeAll(set, InvState(setted, value, lg), svs, kind, outs, 1)

\* One iteration of `while let Some(..) = iter.next()`.  DelayPolicy saves
\* the contexts of a matched process; ForwardPolicy has the handlers invoked
\* by the matching itself, and a failing handler ends the parse.
OptStep ==
    /\ pc = "opts"
    /\ idx <= Len(args)
    /\ LET clopt == ArgParser_parse(args[idx])
           next == IF idx < Len(args) THEN Some(args[idx + 1]) ELSE None
           st == IF clopt.ok THEN StyleLoop(set, clopt, next, idx, 1, NoMatch) ELSE NoMatch
           now == IF policy = "forward" THEN st.ctx ELSE <<>>
       IN  \E outs \in OutcomeVecs(set, now) :
             LET iv == RunHandlers(now, "opt", outs, log)
             IN  /\ contexts' = IF policy = "delay" THEN contexts \o st.ctx ELSE contexts
                 /\ setted' = iv.setted
                 /\ value' = iv.value
                 /\ log' = iv.log
                 /\ IF iv.err
                    THEN /\ Return(Err("handler", {}))
                         /\ tokClass' = Append(tokClass, Class("opt", st.sty, st.ctx))
                         /\ UNCHANGED <<idx, noa>>
                    ELSE IF clopt.ok /\ IsUnknown(st.matched, strict)
                    THEN /\ Return(Err("sp_invalid_option_name", {}))
                         /\ tokClass' = Append(tokClass, Class("unknown", "", <<>>))
                         /\ UNCHANGED <<idx, noa>>
                    ELSE /\ UNCHANGED <<pc, ret>>
                         /\ IF SkipNext(st.matched, st.consume)
                            THEN /\ idx' = idx + 2
                                 /\ tokClass' = tokClass \o <<Class("opt", st.sty, st.ctx)>>
                                         \o (IF idx < Len(args)
                                             THEN <<Class("val", "", <<>>)>> ELSE <<>>)
                                 /\ UNCHANGED noa
                            ELSE IF ~st.matched
                            THEN /\ idx' = idx + 1
                                 /\ noa' = Append(noa, args[idx])
                                 /\ tokClass' = Append(tokClass, Class("noa", "", <<>>))
                            ELSE /\ idx' = idx + 1
                                 /\ tokClass' = Append(tokClass, Class("opt", st.sty, st.ctx))
                                 /\ UNCHANGED noa
    /\ UNCHANGED <<opts, getopt, commit, policy, set, strict, args, invReg, parses, stale, store>>

\* After the option loop: the first NOA is offered to the Cmd options, then
\* cmd_check; with no NOA only cmd_check runs
NoaCmd ==
    /\ policy = "delay"
    /\ pc = "opts"
    /\ idx > Len(args)
    /\ LET svs == IF Len(noa) > 0
                  THEN NoaSavers(set, "Cmd", Some(noa[1]), 1, Len(noa), 1) ELSE <<>>
       IN  \E outs \in OutcomeVecs(set, svs) :
             LET st == RunHandlers(svs, "cmd", outs,
                                   IF Len(noa) > 0
                                   THEN Append(log, Guess("cmd", 1, Len(noa))) ELSE log)
                 passed == cmd_check(set, st.setted)
             IN  /\ setted' = st.setted
                 /\ value' = st.value
                 /\ IF st.err
                    THEN log' = st.log /\ Return(Err("handler", {})) /\ UNCHANGED idx
                    ELSE /\ log' = Append(st.log, Check("cmd_check", passed))
                         /\ IF ~passed
                            THEN /\ Return(Err("sp_cmd_force_require", HasStyle(set, "Cmd")))
                                 /\ UNCHANGED idx
                            ELSE /\ pc' = IF Len(noa) > 0 THEN "pos" ELSE "inv"
                                 /\ idx' = 1
                                 /\ UNCHANGED ret
    /\ UNCHANGED <<opts, getopt, commit, policy, set, strict, args, noa, contexts, invReg, tokClass, parses, stale, store>>

\* One iteration of `for idx in 0..noa_len`: NOA idx is offered to the Pos options
NoaPos ==
    /\ pc = "pos"
    /\ idx <= Len(noa)
    /\ LET svs == NoaSavers(set, "Pos", Some(noa[idx]), idx, Len(noa), 1)
       IN  \E outs \in OutcomeVecs(set, svs) :
             LET st == RunHandlers(svs, "pos", outs, Append(log, Guess("pos", idx, Len(noa))))
             IN  /\ setted' = st.setted
                 /\ value' = st.value
                 /\ log' = st.log
                 /\ IF st.err
                    THEN Return(Err("handler", {})) /\ UNCHANGED idx
                    ELSE /\ pc' = IF idx < Len(noa) THEN "pos"
                               ELSE IF policy = "delay" THEN "inv" ELSE "nonoptchk"
                         /\ idx' = idx + 1
                         /\ UNCHANGED ret
    /\ UNCHANGED <<opts, getopt, commit, policy, set, strict, args, noa, contexts, invReg, tokClass, parses, stale, store>>

\* ForwardPolicy, after the option loop: `service.opt_check(set)?`
ForwardOptCheck ==
    /\ policy = "forward"
    /\ pc = "opts"
    /\ idx > Len(args)
    /\ LET passed == opt_check(set, setted)
       IN  /\ log' = Append(log, Check("opt_check", passed))
           /\ IF ~passed
              THEN Return(Err("sp_option_force_require", {}))
              ELSE /\ pc' = IF Len(noa) > 0 THEN "fcmd" ELSE "nonoptchk"
                   /\ UNCHANGED ret
    /\ idx' = 1
    /\ UNCHANGED <<opts, getopt, commit, policy, set, strict, setted, value, args, noa, contexts, invReg,
                   tokClass, parses, stale, store>>

\* ForwardPolicy: the first NOA is offered to the Cmd options (PSNonCmd)
ForwardNoaCmd ==
    /\ pc = "fcmd"
    /\ LET svs == NoaSavers(set, "Cmd", Some(noa[1]), 1, Len(noa), 1)
       IN  \E outs \in OutcomeVecs(set, svs) :
             LET st == RunHandlers(svs, "cmd", outs, Append(log, Guess("cmd", 1, Len(noa))))
             IN  /\ setted' = st.setted
                 /\ value' = st.value
                 /\ log' = st.log
                 /\ IF st.err
                    THEN Return(Err("handler", {}))
                    ELSE pc' = "pos" /\ UNCHANGED ret
    /\ UNCHANGED <<opts, getopt, commit, policy, set, strict, args, idx, noa, contexts, invReg, tokClass,
                   parses, stale, store>>

\* ForwardPolicy: `service.nonopt_check(set)?`, the checks of Cmd and Pos
NonoptCheck ==
    /\ pc = "nonoptchk"
    /\ \E r \in pos_check(set, setted) :
         LET cmd == cmd_check(set, setted)
         IN  /\ log' = Append(log, Check("nonopt_check", cmd /\ r.ok))
             /\ IF ~cmd
                THEN Return(Err("sp_cmd_force_require", HasStyle(set, "Cmd")))
                ELSE IF ~r.ok
                THEN Return(Err("sp_pos_force_require", r.names))
                ELSE pc' = "main" /\ UNCHANGED ret
    /\ UNCHANGED <<opts, getopt, commit, policy, set, strict, setted, value, args, idx, noa, contexts, invReg,
                   tokClass, parses, stale, store>>

\* invoke_opt_callback: the saved contexts are taken out of the policy and
\* their handlers invoked in order
invoke_opt_callback ==
    /\ pc = "inv"
    /\ contexts' = <<>>
    /\ \E outs \in OutcomeVecs(set, contexts) :
         LET st == RunHandlers(contexts, "opt", outs, log)
         IN  /\ setted' = st.setted
             /\ value' = st.value
             /\ log' = st.log
             /\ IF st.err
                THEN Return(Err("handler", {}))
                ELSE pc' = "optchk" /\ UNCHANGED ret
    /\ UNCHANGED <<opts, getopt, commit, policy, set, strict, args, idx, noa, invReg, tokClass, parses, stale, store>>

\* `opt_check(set)?`: the Ok(bool) it returns is dropped by the caller
OptCheck ==
    /\ pc = "optchk"
    /\ log' = Append(log, Check("opt_check", opt_check(set, setted)))
    /\ pc' = "poschk"
    /\ UNCHANGED <<opts, getopt, commit, policy, set, strict, setted, value, args, idx, noa, contexts, invReg,
                   ret, tokClass, parses, stale, store>>

\* `pos_check(set)?`
PosCheck ==
    /\ pc = "poschk"
    /\ \E r \in pos_check(set, setted) :
         /\ log' = Append(log, Check("pos_check", r.ok))
         /\ IF r.ok
            THEN pc' = "main" /\ UNCHANGED ret
            ELSE Return(Err("sp_pos_force_require", r.names))
    /\ UNCHANGED <<opts, getopt, commit, policy, set, strict, setted, value, args, idx, noa, contexts, invReg,
                   tokClass, parses, stale, store>>

\* Variant: the Main style is offered index 1 by both policies
MainIndexOne(pol) == 1

\* the NOA index of the Main guess: DelayPolicy sets 0, ForwardPolicy 1
MainIndex(pol) == IF pol = "delay" THEN 0 ELSE 1

\* The Main options are offered the whole NOA list
MainStep ==
    /\ pc = "main"
    /\ LET cur == MainIndex(policy)
           svs == NoaSavers(set, "Main", None, cur, Len(noa), 1)
       IN  \E outs \in OutcomeVecs(set, svs) :
             LET st == RunHandlers(svs, "main", outs, Append(log, Guess("main", cur, Len(noa))))
             IN  /\ setted' = st.setted
                 /\ value' = st.value
                 /\ log' = st.log
                 /\ IF st.err
                    THEN Return(Err("handler", {}))
                    ELSE pc' = "post" /\ UNCHANGED ret
    /\ UNCHANGED <<opts, getopt, commit, policy, set, strict, args, idx, noa, contexts, invReg, tokClass, parses, stale, store>>

\* DelayPolicy: `post_check(set)?; ser.reg(is); Ok(Some(true))`, the Ok(bool)
\* of post_check is dropped.  ForwardPolicy: `service.post_check(set)?; Ok(true)`.
PostCheck ==
    /\ pc = "post"
    /\ log' = Append(log, Check("post_check", post_check(set, setted)))
    /\ IF policy = "delay"
       THEN invReg' = TRUE /\ Return(Ok)
       ELSE /\ UNCHANGED invReg
            /\ IF post_check(set, setted) THEN Return(Ok)
               ELSE Return(Err("sp_main_force_require", HasStyle(set, "Main")))
    /\ UNCHANGED <<opts, getopt, commit, policy, set, strict, setted, value, args, idx, noa, contexts,
                   tokClass, parses, stale, store>>

\* Parser::reset between two parses: every option back to unset
Reset ==
    /\ pc = "done"
    /\ pc' = "idle"
    /\ ret' = Running
    /\ setted' = [u \in 1..Len(set) |-> FALSE]
    /\ value' = [u \in 1..Len(set) |-> Null]
    /\ args' = <<>>
    /\ noa' = <<>>
    /\ idx' = 0
    /\ log' = <<>>
    /\ tokClass' = <<>>
    /\ UNCHANGED <<opts, getopt, commit, policy, set, strict, contexts, invReg, parses, stale, store>>

Next ==
    \/ \E a \in ArgVecs : ParseStart(a)
    \/ OptStep
    \/ NoaCmd
    \/ ForwardOptCheck
    \/ ForwardNoaCmd
    \/ NonoptCheck
    \/ NoaPos
    \/ invoke_opt_callback
    \/ OptCheck
    \/ PosCheck
    \/ MainStep
    \/ PostCheck
    \/ Reset

Spec == Init /\ [][Next]_vars

----------------------------------------------------------------------------
(* State machine of a ValStorer that is invoked repeatedly *)

InitStore ==
    /\ commit = NoCommit
    /\ opts = <<>>
    /\ getopt = NoGetopt
    /\ policy = "delay"
    /\ set = <<>>
    /\ strict = TRUE
    /\ setted = <<>>
    /\ value = <<>>
    /\ args = <<>>
    /\ pc = "idle"
    /\ idx = 0
    /\ noa = <<>>
    /\ contexts = <<>>
    /\ invReg = TRUE
    /\ ret = Running
    /\ log = <<>>
    /\ tokClass = <<>>
    /\ parses = 0
    /\ stale = <<>>
    /\ store \in {NewStorer(k) : k \in {"le2", "odd"}}

\* ValStorer::invoke
ValStorer_invoke(raw, act) ==
    /\ Len(store.slot) < MaxSlot
    /\ IF act = "Cnt" /\ store.slot # <<>> THEN store.slot[1] < MaxCount ELSE TRUE
    /\ LET r == ValStorer_validator(store.valid, raw, act, store.slot)
       IN  store' = [store EXCEPT !.slot = r.slot, !.prev = store.slot,
                                  !.raw = raw, !.act = act, !.res = r.res]
    /\ UNCHANGED parseVars

NextStore == \E raw \in RawVals, act \in Actions : ValStorer_invoke(raw, act)

SpecStore == InitStore /\ [][NextStore]_vars

----------------------------------------------------------------------------
(* State machine of a CheckService whose checkpoints are called in a row *)

\* a set with one fixed and two floating positionals
SetFloat ==
    << Opt(<<"p">>, "p", FALSE, Forward(1), None, "default"),
       Opt(<<"g">>, "p", FALSE, Greater(1), None, "default"),
       Opt(<<"w">>, "p", FALSE, AnyWhere, None, "default") >>

\* the option sets the checkpoints are called on
CheckSets == OptSets \cup {WithForce(SetFloat, F) : F \in SUBSET (1..3)}

\* the separator of `names.join(" | ")`
Bar == <<" ", "|", " ">>

\* the uids of U in the order of set.keys()
RECURSIVE InKeyOrder(_)
InKeyOrder(U) ==
    IF U = {} THEN <<>> ELSE <<SetMin(U)>> \o InKeyOrder(U \ {SetMin(U)})

\* [T]::join
RECURSIVE Join(_, _)
Join(hs, sep) ==
    IF hs = <<>> THEN <<>>
    ELSE IF Len(hs) = 1 THEN hs[1]
    ELSE hs[1] \o sep \o Join(Tail(hs), sep)

\* the text of the error of pos_check and cmd_check: the hints of the
\* options pushed to names, joined; the hint of an option is its name
JoinedHints(S, names) ==
    LET us == InKeyOrder(names)
    IN  Join([i \in 1..Len(us) |-> S[us[i]].name], Bar)

Checkpoints == {"pre_check", "cmd_check", "opt_check", "pos_check", "post_check"}

\* what a checkpoint hands back: Ok(true), Ok(false) or the error
CheckResults(name, S, isSet) ==
    CASE name = "pre_check" ->
            {IF pre_check(S) THEN Ok ELSE Err("con_can_not_insert_pos", {})}
      [] name = "cmd_check" ->
            {IF cmd_check(S, isSet) THEN Ok
             ELSE Err("sp_cmd_force_require", HasStyle(S, "Cmd"))}
      [] name = "opt_check" -> {IF opt_check(S, isSet) THEN Ok ELSE Err("ok_false", {})}
      [] name = "post_check" -> {IF post_check(S, isSet) THEN Ok ELSE Err("ok_false", {})}
      [] OTHER ->
            {IF r.ok THEN Ok ELSE Err("sp_pos_force_require", r.names) :
                r \in pos_check(S, isSet)}

\* Variant: a checkpoint that fails clears the set flags
CheckFrameClearing(res, S, isSet, val) ==
    [set |-> S,
     setted |-> IF res = Ok THEN isSet ELSE [u \in 1..Len(S) |-> FALSE],
     value |-> val]

\* the option set a checkpoint leaves behind: it takes `&mut Set`, and only
\* calls keys(), get(), mat_style(), idx(), optional(), valid() and hint()
CheckFrame(res, S, isSet, val) == [set |-> S, setted |-> isSet, value |-> val]

InitCheck ==
    /\ commit = NoCommit
    /\ opts = <<>>
    /\ getopt = NoGetopt
    /\ policy = "delay"
    /\ set \in CheckSets
    /\ strict = FALSE
    /\ setted \in [1..3 -> BOOLEAN]
    /\ value = [u \in 1..3 |-> IF setted[u] THEN StrVal(<<"x">>) ELSE Null]
    /\ args = <<>>
    /\ pc = "check"
    /\ idx = 0
    /\ noa = <<>>
    /\ contexts = <<>>
    /\ invReg = TRUE
    /\ ret = Running
    /\ log = <<>>
    /\ tokClass = <<>>
    /\ parses = 0
    /\ stale = <<>>
    /\ store = NewStorer("none")

\* one call of a checkpoint on the option set
RunCheck(name) ==
    /\ pc = "check"
    /\ Len(log) < MaxRuns
    /\ \E res \in CheckResults(name, set, setted) :
         LET after == CheckFrame(res, set, setted, value)
         IN  /\ log' = Append(log, Event(name, "check", 0, JoinedHints(set, res[1].names), res))
             /\ ret' = res
             /\ set' = after.set
             /\ setted' = after.setted
             /\ value' = after.value
    /\ UNCHANGED <<opts, getopt, commit, policy, strict, args, pc, idx, noa, contexts, invReg, tokClass,
                   parses, stale, store>>

NextCheck == \E name \in Checkpoints : RunCheck(name)

SpecCheck == InitCheck /\ [][NextCheck]_vars

----------------------------------------------------------------------------
(* State machine of callbacks built by wrap_handler and invoked in a row *)

\* what a handler hands back: an error, no value, a string, a boolean
HandlerOuts == {"err", "none", "str", "bool"}

OutValue(out) ==
    CASE out = "str" -> StrVal(<<"x">>)
      [] out = "bool" -> BoolVal(TRUE)
      [] OTHER -> Null

\* Variant: the value is written before its kind is looked at
StrOpt_set_callback_retUnchecked(val, out) ==
    IF out = "none" THEN [ok |-> TRUE, value |-> val]
    ELSE [ok |-> OutValue(out).k = "str", value |-> OutValue(out)]

\* StrOpt::set_callback_ret on an option whose slot holds val
StrOpt_set_callback_ret(val, out) ==
    IF out = "none" THEN [ok |-> TRUE, value |-> val]
    ELSE IF OutValue(out).k # "str" THEN [ok |-> FALSE, value |-> val]
    ELSE [ok |-> TRUE, value |-> OutValue(out)]

\* MainOpt::set_callback_ret
MainOpt_set_callback_ret(val, out) ==
    IF out = "none" THEN [ok |-> TRUE, value |-> val]
    ELSE [ok |-> TRUE, value |-> OutValue(out)]

\* Store::process of the option's store: a string option keeps strings only,
\* the other families replace the slot by whatever is handed back
Store_process(o, val, out) ==
    IF o.ty = "s" THEN StrOpt_set_callback_ret(val, out)
    ELSE MainOpt_set_callback_ret(val, out)

\* Variant: the store also runs after a failed handler
wrap_handlerStoreAlways(S, val, u, n, ext, out) ==
    LET sp == Store_process(S[u], val[u], IF out = "err" THEN "str" ELSE out)
    IN  [value |-> [val EXCEPT ![u] = sp.value],
         steps |-> << Event("extract", "wrap", u, n, IF ext THEN "ok" ELSE "err"),
                      Event("handler", "wrap", u, n, out),
                      Event("store", "wrap", u, n, IF sp.ok THEN "ok" ELSE "err") >>,
         res |-> IF out = "err" THEN Err("handler", {}) ELSE Ok]

\* The callback wrap_handler builds, invoked as invocation n for option u:
\* `handler.invoke(uid, set, Args::extract(..)?)?` and then
\* `Ok(store.process(uid, set, ser, val)?)`
wrap_handler(S, val, u, n, ext, out) ==
    LET e1 == Event("extract", "wrap", u, n, IF ext THEN "ok" ELSE "err")
        e2 == Event("handler", "wrap", u, n, out)
        sp == Store_process(S[u], val[u], out)
        e3 == Event("store", "wrap", u, n, IF sp.ok THEN "ok" ELSE "err")
    IN  IF ~ext
        THEN [value |-> val, steps |-> <<e1>>, res |-> Err("extract", {})]
        ELSE IF out = "err"
        THEN [value |-> val, steps |-> <<e1, e2>>, res |-> Err("handler", {})]
        ELSE [value |-> [val EXCEPT ![u] = sp.value],
              steps |-> <<e1, e2, e3>>,
              res |-> IF sp.ok THEN Ok ELSE Err("InvalidReturnValueOfCallback", {})]

InitInvoke ==
    /\ commit = NoCommit
    /\ opts = <<>>
    /\ getopt = NoGetopt
    /\ policy = "delay"
    /\ set \in BaseSets
    /\ strict = FALSE
    /\ setted = [u \in 1..Len(set) |-> FALSE]
    /\ value = [u \in 1..Len(set) |-> Null]
    /\ args = <<>>
    /\ pc = "invoke"
    /\ idx = 0
    /\ noa = <<>>
    /\ contexts = <<>>
    /\ invReg = TRUE
    /\ ret = Running
    /\ log = <<>>
    /\ tokClass = <<>>
    /\ parses = 0
    /\ stale = <<>>
    /\ store = NewStorer("none")

\* one invocation of the wrapped callback of option u
Invoke(u, ext, out) ==
    /\ pc = "invoke"
    /\ parses < MaxInvokes
    /\ parses' = parses + 1
    /\ LET w == wrap_handler(set, value, u, parses + 1, ext, out)
       IN  /\ value' = w.value
           /\ setted' = [setted EXCEPT ![u] = @ \/ (w.value[u] # value[u])]
           /\ log' = log \o w.steps
           /\ ret' = w.res
    /\ UNCHANGED <<opts, getopt, commit, policy, set, strict, args, pc, idx, noa, contexts, invReg, tokClass,
                   stale, store>>

NextInvoke == \E u \in 1..Len(set), ext \in BOOLEAN, out \in HandlerOuts : Invoke(u, ext, out)

SpecInvoke == InitInvoke /\ [][NextInvoke]_vars

----------------------------------------------------------------------------
(* Creators, and the state machine of a commit object *)

\* a configuration: type name, deactivate-style request, prefix present,
\* name of the creator that is asked to build the option
Cfg(ty, deact, pre, ctor) == [ty |-> ty, deact |-> deact, pre |-> pre, ctor |-> ctor]

\* what std::mem::take leaves behind in UCommit.info
DefaultCfg == Cfg("", FALSE, FALSE, "default")

Cfgs == {Cfg(ty, d, p, c) : ty \in {"s", "m"}, d \in BOOLEAN, p \in BOOLEAN, c \in {"s", "m"}}

\* Variant: the deactivate-style request is not looked at
StrCreator_create_withAnyStyle(cfg) ==
    IF ~cfg.pre THEN "MissingOptionPrefix"
    ELSE IF cfg.ty # "s" THEN "panic"
    ELSE "ok"

\* StrCreator::create_with: "ok", the error it returns, or "panic" when the
\* assert_eq! on the type names fails
StrCreator_create_with(cfg) ==
    IF cfg.deact THEN "NotSupportDeactivateStyle"
    ELSE IF ~cfg.pre THEN "MissingOptionPrefix"
    ELSE IF cfg.ty # "s" THEN "panic"
    ELSE "ok"

\* MainCreator::create_with
MainCreator_create_with(cfg) ==
    IF cfg.deact THEN "NotSupportDeactivateStyle"
    ELSE IF cfg.ty # "m" THEN "panic"
    ELSE "ok"

\* aopt StrCreator::_create_with followed by StrOpt::try_from: the type names
\* are compared by debug_assert_eq!, which panics in a debug build and is
\* compiled out in a release build; gen_pre fails on a missing prefix
AStrCreator_create_with(cfg) ==
    IF cfg.deact THEN {"NotSupportDeactivateStyle"}
    ELSE (IF cfg.ty # "s" THEN {"panic"} ELSE {})
         \cup {IF ~cfg.pre THEN "MissingOptionPrefix" ELSE "ok"}

\* the creators create_with is called on directly
Creators == {"StrCreator", "MainCreator", "aopt::StrCreator"}

\* the outcomes of create_with of the creator cr
Creator_create_with(cr, cfg) ==
    CASE cr = "StrCreator" -> {StrCreator_create_with(cfg)}
      [] cr = "MainCreator" -> {MainCreator_create_with(cfg)}
      [] OTHER -> AStrCreator_create_with(cfg)

\* `set.ctor_mut(ctor)?.new_with(info)`: the outcomes of asking the creator
\* named in the configuration; what the default creator makes of a default
\* configuration is left open
Ctor_new_with(cfg) ==
    CASE cfg.ctor = "s" -> {StrCreator_create_with(cfg)}
      [] cfg.ctor = "m" -> {MainCreator_create_with(cfg)}
      [] OTHER -> {"ok", "raise_error"}

CommitKinds == {"SetCommit", "SetCommitWithValue", "UCommit"}

\* the kinds a commit can be converted into (set_type, set_value_type, ...)
ConvertsTo(kind) ==
    CASE kind = "SetCommit" -> {"SetCommitWithValue", "SetCommitInfered"}
      [] kind = "SetCommitWithValue" -> {"SetCommitInfered"}
      [] OTHER -> {}

\* Commit::new on a set that holds ins options already inserted by the chain
NewCommit(kind, cfg, ins, hist) ==
    [live |-> TRUE, kind |-> kind, cfg0 |-> cfg, info |-> Some(cfg), commited |-> None,
     drop_commit |-> TRUE, ins |-> ins, panicked |-> FALSE, hist |-> hist]

Op(op, res, uid) == [op |-> op, res |-> res, uid |-> uid]

\* a call of create_with in the history: the creator, its argument, the outcome
CreateOp(cr, cfg, res) == [op |-> "create_with", res |-> res, uid |-> 0, cr |-> cr, cfg |-> cfg]

Outcome(c, res, uid) == [c |-> c, res |-> res, uid |-> uid]

\* the creation and insertion part of run_and_commit_the_change
CommitCreate(c) ==
    LET c1 == [c EXCEPT !.drop_commit = FALSE]
    IN  IF c.info = None
        THEN {Outcome([c1 EXCEPT !.panicked = TRUE], "panic", 0)}
        ELSE LET c2 == [c1 EXCEPT !.info = IF c.kind = "UCommit"
                                           THEN Some(DefaultCfg) ELSE None]
             IN  { CASE r = "ok" ->
                          Outcome([c2 EXCEPT !.ins = @ + 1, !.commited = Some(c.ins + 1)],
                                  "ok", c.ins + 1)
                     [] r = "panic" -> Outcome([c2 EXCEPT !.panicked = TRUE], "panic", 0)
                     [] OTHER -> Outcome(c2, r, 0) : r \in Ctor_new_with(c.info[1]) }

\* Variant: the uid of an earlier commit is not looked at
run_and_commit_the_changeAgain(c) == CommitCreate(c)

\* run_and_commit_the_change(&mut self): the possible outcomes
run_and_commit_the_change(c) ==
    IF IsSome(c.commited)
    THEN {Outcome(c, "ok", c.commited[1])}
    ELSE CommitCreate(c)

\* Drop::drop: a commit that was neither run nor converted commits itself,
\* and `expect` turns a failure into a panic
Commit_drop(c) ==
    IF c.drop_commit /\ c.commited = None
    THEN { IF o.res = "ok" THEN Outcome([o.c EXCEPT !.live = FALSE], "ok", o.uid)
           ELSE Outcome([o.c EXCEPT !.live = FALSE, !.panicked = TRUE], "panic", 0) :
              o \in run_and_commit_the_change(c) }
    ELSE {Outcome([c EXCEPT !.live = FALSE], "none", 0)}

InitCommit ==
    /\ policy = "delay"
    /\ set = <<>>
    /\ strict = TRUE
    /\ setted = <<>>
    /\ value = <<>>
    /\ args = <<>>
    /\ pc = "commit"
    /\ idx = 0
    /\ noa = <<>>
    /\ contexts = <<>>
    /\ invReg = TRUE
    /\ ret = Running
    /\ log = <<>>
    /\ tokClass = <<>>
    /\ parses = 0
    /\ stale = <<>>
    /\ store = NewStorer("none")
    /\ commit \in {NewCommit(k, cfg, 0, <<>>) : k \in CommitKinds, cfg \in Cfgs}
    /\ opts = <<>>
    /\ getopt = NoGetopt

\* the commit can take one more operation
CommitReady == pc = "commit" /\ ~commit.panicked /\ Len(commit.hist) < MaxOps

\* a call of run_and_commit_the_change inside the crate
RunAndCommit ==
    /\ CommitReady /\ commit.live
    /\ \E o \in run_and_commit_the_change(commit) :
         commit' = [o.c EXCEPT !.hist = Append(@, Op("run_and_commit_the_change", o.res, o.uid))]
    /\ UNCHANGED <<parseVarsNoCommit, store, opts, getopt>>

\* run(mut self): the commit is run and then dropped
Run ==
    /\ CommitReady /\ commit.live
    /\ \E o \in run_and_commit_the_change([commit EXCEPT !.drop_commit = FALSE]) :
         \E d \in Commit_drop(o.c) :
            commit' = [d.c EXCEPT !.hist = Append(@, Op("run", o.res, o.uid)),
                                  !.panicked = o.c.panicked \/ d.c.panicked]
    /\ UNCHANGED <<parseVarsNoCommit, store, opts, getopt>>

\* set_type, set_value_type and what is built on them: the set and the
\* configuration move into a commit of another type, the old one is dropped
Convert(kind) ==
    /\ CommitReady /\ commit.live
    /\ kind \in ConvertsTo(commit.kind)
    /\ LET old == [commit EXCEPT !.drop_commit = FALSE, !.info = None]
       IN  IF commit.info = None
           THEN commit' = [commit EXCEPT !.panicked = TRUE, !.drop_commit = FALSE,
                                         !.hist = Append(@, Op("convert", "panic", 0))]
           ELSE \E d \in Commit_drop(old) :
                   commit' = NewCommit(kind, commit.info[1], d.c.ins,
                                       Append(commit.hist, Op("convert", d.res, 0)))
    /\ UNCHANGED <<parseVarsNoCommit, store, opts, getopt>>

\* the commit goes out of scope
Drop ==
    /\ CommitReady /\ commit.live
    /\ \E d \in Commit_drop(commit) :
         commit' = [d.c EXCEPT !.hist = Append(@, Op("drop", d.res, d.uid))]
    /\ UNCHANGED <<parseVarsNoCommit, store, opts, getopt>>

\* create_with of the creator cr called with the configuration of the commit,
\* as it is or with the deactivate-style request switched
CreateWith(cr, flip) ==
    /\ CommitReady
    /\ LET cfg == IF flip THEN [commit.cfg0 EXCEPT !.deact = ~@] ELSE commit.cfg0
       IN  \E r \in Creator_create_with(cr, cfg) :
              commit' = [commit EXCEPT !.hist = Append(@, CreateOp(cr, cfg, r)),
                                       !.panicked = (r = "panic")]
    /\ UNCHANGED <<parseVarsNoCommit, store, opts, getopt>>

NextCommit ==
    \/ RunAndCommit
    \/ Run
    \/ \E kind \in {"SetCommitWithValue", "SetCommitInfered"} : Convert(kind)
    \/ Drop
    \/ \E cr \in Creators, flip \in BOOLEAN : CreateWith(cr, flip)

SpecCommit == InitCommit /\ [][NextCommit]_vars

----------------------------------------------------------------------------
(* Option objects of getopt-rs: MainOpt and StrOpt *)

\* MainOpt::from(CreateInfo): a main option has a uid, a name and a value.
\* assigned, matched and last are history: the uid given at insertion,
\* whether a match stored the value since the last reset, the last call.
NewMainOpt(uid) ==
    [kind |-> "MainOpt", uid |-> uid, name |-> <<"m">>, value |-> Null,
     assigned |-> uid, matched |-> FALSE, last |-> "new"]

\* StrOpt::from(CreateInfo)
NewStrOpt(uid, optional, dflt) ==
    [kind |-> "StrOpt", uid |-> uid, name |-> <<"s">>, prefix |-> <<"-">>,
     optional |-> optional, value |-> Null, default_value |-> dflt, alias |-> <<>>,
     assigned |-> uid, matched |-> FALSE, last |-> "new"]

IsMain(o) == o.kind = "MainOpt"

get_optional(o) == IF IsMain(o) THEN TRUE ELSE o.optional

get_index(o) == None

get_alias(o) == IF IsMain(o) THEN None ELSE Some(o.alias)

get_prefix(o) == IF IsMain(o) THEN <<>> ELSE o.prefix

get_default_value(o) == IF IsMain(o) THEN Null ELSE o.default_value

match_name(o, n) == IF IsMain(o) THEN TRUE ELSE o.name = n

match_prefix(o, p) == IF IsMain(o) THEN FALSE ELSE o.prefix = p

match_alias(o, p, n) ==
    IF IsMain(o) THEN FALSE ELSE \E i \in 1..Len(o.alias) : o.alias[i] = <<p, n>>

match_index(o, total, current) == TRUE

\* has_value: a main option has a value unless it is null, a string option
\* only when the value is a string
has_value(o) == IF IsMain(o) THEN o.value.k # "null" ELSE o.value.k = "str"

\* Type::check: TRUE when the check passes
Opt_check(o) == get_optional(o) \/ has_value(o)

parse_value(o, str) == IF IsMain(o) THEN BoolVal(TRUE) ELSE StrVal(str)

\* Variant: reset_value leaves the value as it is
reset_valueKeep(o) == o

\* reset_value: the value becomes a copy of the default value
reset_value(o) == [o EXCEPT !.value = get_default_value(o)]

\* rem_alias of StrOpt: the first equal entry is removed
RemFirst(al, e) ==
    IF \E i \in 1..Len(al) : al[i] = e
    THEN LET i == SetMin({j \in 1..Len(al) : al[j] = e})
         IN  SubSeq(al, 1, i - 1) \o SubSeq(al, i + 1, Len(al))
    ELSE al

\* the calls made on an option, with their arguments
OptCalls ==
    {<<"set_uid", n>> : n \in 1..MaxUid}
    \cup {<<"set_optional", b>> : b \in BOOLEAN}
    \cup {<<"set_index", Forward(1)>>, <<"add_alias", <<<<"+">>, <<"a">>>> >>,
          <<"rem_alias", <<<<"+">>, <<"a">>>> >>, <<"set_prefix", <<"+">>>>,
          <<"set_default_value", StrVal(<<"d">>)>>, <<"match", <<"v">>>>,
          <<"reset_value", Null>>}

\* the option o after the call c
Opt_call(o, c) ==
    LET op == c[1]
        a == c[2]
        o1 == [o EXCEPT !.last = op]
    IN  CASE op = "set_uid" -> [o1 EXCEPT !.uid = a]
          [] op = "match" -> [o1 EXCEPT !.value = parse_value(o, a), !.matched = TRUE]
          [] op = "reset_value" -> [reset_value(o1) EXCEPT !.matched = FALSE]
          [] IsMain(o) -> o1
          [] op = "set_optional" -> [o1 EXCEPT !.optional = a]
          [] op = "add_alias" -> [o1 EXCEPT !.alias = Append(@, a)]
          [] op = "rem_alias" -> [o1 EXCEPT !.alias = RemFirst(@, a)]
          [] op = "set_prefix" -> [o1 EXCEPT !.prefix = a]
          [] op = "set_default_value" -> [o1 EXCEPT !.default_value = a]
          [] OTHER -> o1

InitOpt ==
    /\ policy = "delay"
    /\ set = <<>>
    /\ strict = TRUE
    /\ setted = <<>>
    /\ value = <<>>
    /\ args = <<>>
    /\ pc = "opt"
    /\ idx = 0
    /\ noa = <<>>
    /\ contexts = <<>>
    /\ invReg = TRUE
    /\ ret = Running
    /\ log = <<>>
    /\ tokClass = <<>>
    /\ parses = 0
    /\ stale = <<>>
    /\ store = NewStorer("none")
    /\ commit = NoCommit
    /\ opts = <<>>
    /\ getopt = NoGetopt

\* an option is created and inserted; the set hands out the next free uid
InsertOpt(o) ==
    /\ pc = "opt"
    /\ Len(opts) < MaxOpts
    /\ opts' = Append(opts, o)
    /\ UNCHANGED <<parseVarsNoCommit, store, commit, getopt>>

\* one call on the option at position i; parses counts the calls
CallOpt(i, c) ==
    /\ pc = "opt"
    /\ parses < MaxCalls
    /\ parses' = parses + 1
    /\ opts' = [opts EXCEPT ![i] = Opt_call(@, c)]
    /\ UNCHANGED <<policy, set, strict, setted, value, args, pc, idx, noa, contexts,
                   invReg, ret, log, tokClass, stale, store, commit, getopt>>

NextOpt ==
    \/ InsertOpt(NewMainOpt(Len(opts) + 1))
    \/ \E optional \in BOOLEAN, dflt \in {Null, StrVal(<<"d">>)} :
          InsertOpt(NewStrOpt(Len(opts) + 1, optional, dflt))
    \/ \E i \in 1..Len(opts), c \in OptCalls : CallOpt(i, c)

SpecOpt == InitOpt /\ [][NextOpt]_vars

----------------------------------------------------------------------------
(* getopt_impl: trying several parsers on one argument list *)

\* what parse of one parser does: return true or false, fail with a special
\* error, fail with another error
ParseOuts == {"true", "false", "special", "error"}

\* the argument lists handed to getopt_impl
GetoptArgs == {<<>>, <<"a">>, <<"a", "b">>}

\* Variant: a special error is skipped also when it comes from the last parser
IsSkippedAnySpecial(out, index, count) == out \in {"false", "special"}

\* the loop goes on to the next parser: parse returned false, or failed with
\* a special error while another parser is left
IsSkipped(out, index, count) ==
    \/ out = "false"
    \/ (out = "special" /\ index + 1 # count)

InitGetopt ==
    /\ policy = "delay"
    /\ set = <<>>
    /\ strict = TRUE
    /\ setted = <<>>
    /\ value = <<>>
    /\ args = <<>>
    /\ pc = "getopt"
    /\ idx = 0
    /\ noa = <<>>
    /\ contexts = <<>>
    /\ invReg = TRUE
    /\ ret = Running
    /\ log = <<>>
    /\ tokClass = <<>>
    /\ parses = 0
    /\ stale = <<>>
    /\ store = NewStorer("none")
    /\ commit = NoCommit
    /\ opts = <<>>
    /\ \E n \in 1..MaxParsers, a \in GetoptArgs :
          getopt \in {[live |-> TRUE, args |-> a, outs |-> o, index |-> 0, ran |-> <<>>,
                       res |-> <<"running">>] : o \in [1..n -> ParseOuts]}

\* one iteration of the loop over the sets and parsers: the parser at index
\* parses a fresh iterator over all the arguments; ran records the call
GetoptStep ==
    /\ pc = "getopt"
    /\ getopt.live
    /\ getopt.res = <<"running">>
    /\ LET index == getopt.index
           count == Len(getopt.outs)
           out == getopt.outs[index + 1]
           call == [parser |-> index + 1, args |-> getopt.args]
           g == [getopt EXCEPT !.ran = Append(@, call), !.index = index + 1]
       IN  getopt' =
             IF out = "true" THEN [g EXCEPT !.res = <<"some", index + 1>>]
             ELSE IF IsSkipped(out, index, count)
                  THEN IF index + 1 = count THEN [g EXCEPT !.res = <<"none">>] ELSE g
                  ELSE [g EXCEPT !.res = <<"err", index + 1>>]
    /\ UNCHANGED <<parseVarsNoCommit, store, commit, opts>>

NextGetopt == GetoptStep

SpecGetopt == InitGetopt /\ [][NextGetopt]_vars

----------------------------------------------------------------------------
(* Derived history used by the properties *)

RetKind == IF ret = Running THEN "running" ELSE ret[1].kind

IsOptInvoke(ev) == ev.e = "invoke" /\ ev.k = "opt"

\* the option handler invocations of the running parse, in order
OptInvokes == SelectSeq(log, IsOptInvoke)

RECURSIVE Flatten(_, _)
Flatten(cls, i) == IF i > Len(cls) THEN <<>> ELSE cls[i].ctx \o Flatten(cls, i + 1)

\* the contexts of the options matched by the running parse, in match order
Matched == Flatten(tokClass, 1)

\* what the policy's queue has to hold once the option loop is over
Queue == stale \o Matched

CheckRank(e) ==
    CASE e = "pre_check" -> 1
      [] e = "cmd_check" -> 2
      [] e = "opt_check" -> 3
      [] e = "pos_check" -> 4
      [] e = "post_check" -> 5
      [] OTHER -> 0

StyleIdx(sty) == CHOOSE k \in 1..Len(opt_styles) : opt_styles[k] = sty

\* would user style number k match token i of the running parse
StyleMatches(k, i) ==
    LET clopt == ArgParser_parse(args[i])
        next == IF i < Len(args) THEN Some(args[i + 1]) ELSE None
        proc == OptGuess_guess(opt_styles[k], clopt, next)
    IN  clopt.ok /\ Len(proc) > 0 /\ is_mat(process_opt(set, proc))

\* number of tokens among the first i that went to the NOA list
NoaCount(i) == Cardinality({j \in 1..i : tokClass[j].c = "noa"})

----------------------------------------------------------------------------
(* Properties *)

\* C1: under DelayPolicy.parse a successful parse implies that every
\* force-required option (Argument/Boolean/Combined style, Cmd, Pos, Main)
\* has been set.
C1_ForceRequiredIsSet ==
    (policy = "delay" /\ pc = "done" /\ ret = Ok) => \A u \in 1..Len(set) : set[u].force => setted[u]

\* C2: pos_check accepts a fixed-index group as soon as one option of the
\* group received a value: when it reports a violation, some group has no
\* option that was set (or a floating option is unsatisfied).
C2_SharedIndexSubstitutable ==
    (policy = "delay" /\ pc = "done" /\ RetKind = "sp_pos_force_require") =>
        \/ \E i \in PosIndexes(set) : \A u \in PosGroup(set, i) : ~setted[u]
        \/ Invalid(set, setted, PosFloat(set)) # {}

\* C3: the checkpoints run in the order pre_check, cmd_check, opt_check,
\* pos_check, post_check, and the first checkpoint that finds a violation
\* ends the parse with an error: nothing (no handler, no checkpoint) runs
\* after it.
C3_FirstViolationAborts ==
    policy = "delay" =>
    /\ \A i, j \in 1..Len(log) :
          (i < j /\ log[i].k = "check" /\ log[j].k = "check")
              => CheckRank(log[i].e) < CheckRank(log[j].e)
    /\ \A i \in 1..Len(log) :
          (log[i].k = "check" /\ log[i].r = "violation")
              => (i = Len(log) /\ pc = "done" /\ RetKind \notin {"ok", "running"})

\* C4: no option handler is invoked while the option tokens are matched and
\* the Cmd and Pos options are processed; the matched contexts are queued in
\* match order; the option handlers are invoked in queue order, each queued
\* context exactly once once the parse gets past invoke_opt_callback, after
\* every Cmd and Pos handler and before every Main handler.
C4_DeferredInMatchOrder ==
    policy = "delay" =>
    /\ pc \in {"opts", "pos", "inv"} => (OptInvokes = <<>> /\ contexts = Queue)
    /\ \A k, l \in 1..Len(Matched) : k < l => Matched[k].tok <= Matched[l].tok
    /\ Len(OptInvokes) <= Len(Queue)
    /\ \A k \in 1..Len(OptInvokes) :
          OptInvokes[k].u = Queue[k].uid /\ OptInvokes[k].t = Queue[k].tok
    /\ (pc \in {"optchk", "poschk", "main", "post"} \/ RetKind = "ok")
          => Len(OptInvokes) = Len(Queue)
    /\ \A i, j \in 1..Len(log) :
          IsOptInvoke(log[i]) =>
              /\ (log[j].e = "invoke" /\ log[j].k = "main") => i < j
              /\ (log[j].e = "invoke" /\ log[j].k \in {"cmd", "pos"}) => j < i

C4_Witness ==
    /\ policy = "delay"
    /\ RetKind = "ok"
    /\ Len(OptInvokes) >= 2
    /\ OptInvokes[1].t < OptInvokes[2].t
    /\ OptInvokes[1].u # OptInvokes[2].u
    /\ \E j \in 1..Len(log) : log[j].e = "invoke" /\ log[j].k = "main"

\* C5 as stated: the deferred option handlers are invoked only after
\* opt_check and pos_check, so none has been invoked when pos_check or
\* opt_check makes parse return an error.
C5_InvokedAfterChecks ==
    policy = "delay" =>
    /\ \A i \in 1..Len(log) :
          IsOptInvoke(log[i]) =>
              /\ \E j \in 1..(i - 1) : log[j].e = "opt_check"
              /\ \E j \in 1..(i - 1) : log[j].e = "pos_check"
    /\ RetKind = "sp_pos_force_require" => OptInvokes = <<>>

\* C5 amended: the deferred option handlers are invoked after cmd_check and
\* before opt_check and pos_check: when opt_check or pos_check runs the queue
\* is empty and every queued option handler has been invoked.
C5_InvokedBeforeChecks ==
    policy = "delay" =>
    /\ \A i, j \in 1..Len(log) :
          (IsOptInvoke(log[i]) /\ log[j].e \in {"opt_check", "pos_check"}) => i < j
    /\ \A i \in 1..Len(log) :
          IsOptInvoke(log[i]) => \E j \in 1..(i - 1) : log[j].e = "cmd_check"
    /\ (\E j \in 1..Len(log) : log[j].e \in {"opt_check", "pos_check"})
          => (contexts = <<>> /\ Len(OptInvokes) = Len(Queue))

C5_Witness ==
    /\ policy = "delay"
    /\ pc = "done"
    /\ RetKind = "sp_pos_force_require"
    /\ Len(OptInvokes) >= 2

\* the option style the contexts of a user style carry
OptStyleOf(sty) ==
    CASE sty = "Boolean" -> "Boolean"
      [] sty = "CombinedOption" -> "Combined"
      [] OTHER -> "Argument"

\* C6: each option token is handled by the first style, in the order
\* EqualWithValue, Argument, Boolean, CombinedOption, EmbeddedValue, that
\* yields a match, and by that style only: the contexts queued for the token
\* are exactly the candidates of that one style.
C6_FirstStyleWins ==
    \A i \in 1..Len(tokClass) :
        tokClass[i].c = "opt" =>
            LET k == StyleIdx(tokClass[i].sty)
                clopt == ArgParser_parse(args[i])
                next == IF i < Len(args) THEN Some(args[i + 1]) ELSE None
            IN  /\ StyleMatches(k, i)
                /\ \A k2 \in 1..(k - 1) : ~StyleMatches(k2, i)
                /\ Len(tokClass[i].ctx) = Len(OptGuess_guess(opt_styles[k], clopt, next))
                /\ \A n \in 1..Len(tokClass[i].ctx) :
                      /\ tokClass[i].ctx[n].sty = OptStyleOf(opt_styles[k])
                      /\ tokClass[i].ctx[n].tok = i

C6_Witness ==
    \E i \in 1..Len(tokClass) :
        /\ tokClass[i].c = "opt"
        /\ \E k2 \in (StyleIdx(tokClass[i].sty) + 1)..Len(opt_styles) : StyleMatches(k2, i)

\* C7: a token that parses as an option and that no style matches ends the
\* parse with the invalid-option-name error when strict mode is on, and is
\* appended to the NOA list, the parse going on, when strict mode is off.
C7_UnknownOption ==
    /\ \A i \in 1..Len(tokClass) :
          (tokClass[i].c # "val" /\ ArgParser_parse(args[i]).ok
             /\ \A k \in 1..Len(opt_styles) : ~StyleMatches(k, i))
          => IF strict
             THEN /\ tokClass[i].c = "unknown"
                  /\ i = Len(tokClass)
                  /\ pc = "done"
                  /\ RetKind = "sp_invalid_option_name"
             ELSE /\ tokClass[i].c = "noa"
                  /\ NoaCount(i) <= Len(noa)
                  /\ noa[NoaCount(i)] = args[i]
    /\ ~strict => RetKind # "sp_invalid_option_name"
    /\ RetKind = "sp_invalid_option_name"
          => (tokClass # <<>> /\ tokClass[Len(tokClass)].c = "unknown")

C7_Witness ==
    /\ ~strict
    /\ RetKind = "ok"
    /\ \E i \in 1..Len(tokClass) :
          /\ tokClass[i].c = "noa"
          /\ ArgParser_parse(args[i]).ok
          /\ i > 1 /\ tokClass[i - 1].c = "opt"

\* C8: the token after token i is skipped (not examined, not added to the
\* NOA list, no context queued for it) exactly when token i was matched by
\* the Argument style, which takes the following token as value; a token
\* matched by another style never makes its successor be skipped.
C8_SkipIffConsumed ==
    /\ \A i \in 1..Len(tokClass) :
          tokClass[i].c = "val"
              <=> (i > 1 /\ tokClass[i - 1].c = "opt" /\ tokClass[i - 1].sty = "Argument")
    /\ \A i \in 1..Len(tokClass) :
          (tokClass[i].c = "opt" /\ tokClass[i].sty = "Argument" /\ pc = "opts")
              => idx > i + 1
    /\ Len(noa) = NoaCount(Len(tokClass))
    /\ \A i \in 1..Len(tokClass) :
          tokClass[i].c = "noa" => noa[NoaCount(i)] = args[i]
    /\ \A n \in 1..Len(Matched) : tokClass[Matched[n].tok].c = "opt"

C8_Witness ==
    \E i \in 1..(Len(tokClass) - 1) :
        /\ tokClass[i].c = "opt"
        /\ tokClass[i].sty = "Boolean"
        /\ Len(OptGuess_guess("Argument", ArgParser_parse(args[i]), Some(args[i + 1]))) > 0
        /\ tokClass[i + 1].c = "noa"

\* C9: a ValStorer built from a validator stores the parsed value with the
\* action and returns Ok when the validator accepts it, and returns a
\* validation failure and leaves the slot alone when the validator declines.
C9_ValidatorGatesStore ==
    (store.res # "none" /\ IsSome(ParseInt(store.raw))) =>
        LET val == ParseInt(store.raw)[1]
        IN  IF Validator_invoke(store.valid, val)
            THEN /\ store.res = "ok"
                 /\ store.slot = Action_store1(store.act, val, store.prev)
            ELSE /\ store.res = "failure"
                 /\ store.slot = store.prev

\* does token i of the running parse name the boolean option u, without value
NamesBool(i, u) ==
    LET clopt == ArgParser_parse(args[i])
    IN  /\ clopt.ok /\ ~IsSome(clopt.val)
        /\ set[u].ty = "b" /\ set[u].name = clopt.name /\ set[u].pre = clopt.pre

\* C10 as stated: a boolean option with deactivate-style accepts the plain
\* token (slot true) as well as the negated token (slot false).
C10_BothFormsAccepted ==
    \A i \in 1..Len(tokClass) : \A u \in 1..Len(set) :
        (tokClass[i].c # "val" /\ NamesBool(i, u) /\ set[u].deact)
            => (tokClass[i].c = "opt" /\ \E n \in 1..Len(tokClass[i].ctx) :
                                            tokClass[i].ctx[n].uid = u)

\* C10 amended: a boolean option with deactivate-style accepts the negated
\* token only, and its slot then holds false; the plain token is rejected by
\* its validator.  A boolean option without deactivate-style accepts the
\* plain token only, and its slot then holds true.
C10_DeactivateOnlyNegated ==
    /\ \A n \in 1..Len(Matched) :
          set[Matched[n].uid].ty = "b" =>
              /\ Matched[n].dsb = set[Matched[n].uid].deact
              /\ Matched[n].arg = ImplicitBool(set[Matched[n].uid].deact)
    /\ \A i \in 1..Len(tokClass) : \A u \in 1..Len(set) :
          (tokClass[i].c # "val" /\ NamesBool(i, u)
             /\ ArgParser_parse(args[i]).dsb # set[u].deact)
              => \A n \in 1..Len(tokClass[i].ctx) : tokClass[i].ctx[n].uid # u
    /\ \A u \in 1..Len(set) :
          (set[u].ty = "b" /\ setted[u]) => value[u] = BoolVal(~set[u].deact)

C10_Witness ==
    \E u \in 1..Len(set) :
        /\ set[u].ty = "b" /\ set[u].deact
        /\ setted[u] /\ value[u] = BoolVal(FALSE)
        /\ \E i \in 1..Len(tokClass) :
              tokClass[i].c = "noa" /\ NamesBool(i, u) /\ ~ArgParser_parse(args[i]).dsb

\* every Cmd option is force-required and unset
NoCmdValid == \A u \in HasStyle(set, "Cmd") : set[u].force /\ ~setted[u]

\* C11: cmd_check fails with the command-force-required error, naming the
\* candidate commands, exactly when a Cmd is registered and no Cmd is valid;
\* DelayPolicy.parse runs it once the option loop is over, with or without
\* NOA, so force-required commands and an empty token list make a parse that
\* gets to it fail with that error.
C11_CmdCheck ==
    policy = "delay" =>
    /\ \A i \in 1..Len(log) :
          log[i].e = "cmd_check" =>
              (log[i].r = "violation" <=> (HasStyle(set, "Cmd") # {} /\ NoCmdValid))
    /\ RetKind = "sp_cmd_force_require"
          <=> (pc = "done" /\ log[Len(log)] = Check("cmd_check", FALSE))
    /\ RetKind = "sp_cmd_force_require" => ret[1].names = HasStyle(set, "Cmd")
    /\ (pc \in {"pos", "inv", "optchk", "poschk", "main", "post"} \/ RetKind = "ok")
          => \E i \in 1..Len(log) : log[i] = Check("cmd_check", TRUE)
    /\ (pc = "done" /\ args = <<>> /\ HasStyle(set, "Cmd") # {} /\ NoCmdValid
          /\ RetKind \notin {"con_can_not_insert_pos", "ser_not_found"})
          => RetKind = "sp_cmd_force_require"

C11_Witness ==
    /\ policy = "delay"
    /\ pc = "done"
    /\ args = <<>>
    /\ Cardinality(HasStyle(set, "Cmd")) = 2
    /\ RetKind = "sp_cmd_force_require"

\* the set holds a Cmd and a force-required Pos whose index resolves to 1
CmdAndForcedPosAt1 ==
    /\ \E u \in 1..Len(set) : set[u].ty = "c"
    /\ \E u \in 1..Len(set) :
          set[u].ty = "p" /\ set[u].force /\ calc_index(set[u].idx) = Some(1)

\* C12: pre_check fails with the cannot-insert-pos error exactly when the
\* set holds a Cmd and a force-required Pos whose index resolves to position
\* 1; parse runs it first, so in that case no token is examined, nothing is
\* queued and no handler is invoked.
C12_PreCheck ==
    /\ log # <<>> => log[1] = Check("pre_check", ~CmdAndForcedPosAt1)
    /\ RetKind = "con_can_not_insert_pos" <=> (pc = "done" /\ CmdAndForcedPosAt1)
    /\ RetKind = "con_can_not_insert_pos" =>
          /\ Len(log) = 1
          /\ tokClass = <<>>
          /\ noa = <<>>
          /\ contexts = stale

C12_Witness ==
    /\ policy = "delay"
    /\ RetKind = "con_can_not_insert_pos"
    /\ Len(args) = 2
    /\ ArgParser_parse(args[1]).ok

\* C13: a checkpoint called twice on an unchanged option set hands back the
\* same result, the same error with the same hints included.
C13_ChecksRepeatable ==
    \A i, j \in 1..Len(log) :
        (log[i].k = "check" /\ log[j].k = "check" /\ log[i].e = log[j].e)
            => log[i].r = log[j].r

\* C14: no checkpoint modifies the option set: the options, their order,
\* their force flags and indexes, their set flags and their values are the
\* same after a call as before, whether it succeeds or fails.
C14_ChecksKeepSet ==
    [][pc = "check" => (set' = set /\ setted' = setted /\ value' = value)]_vars

C14_Witness ==
    /\ pc = "check"
    /\ Len(log) = 2
    /\ log[1].r # Ok
    /\ log[1].e # log[2].e
    /\ log[2].r # Ok
    /\ \E u \in 1..Len(set) : setted[u]

\* C15: a callback built by wrap_handler extracts the arguments, invokes
\* the handler and runs the store, in this order; a failed extraction is
\* returned with neither handler nor store run, a failed handler is returned
\* with the store not run.
C15_WrapHandlerSteps ==
    /\ \A i \in 1..Len(log) :
          /\ log[i].e = "extract" =>
                /\ (i = 1 \/ log[i - 1].t < log[i].t)
                /\ IF log[i].r = "err"
                   THEN i = Len(log) \/ log[i + 1].t > log[i].t
                   ELSE i < Len(log) /\ log[i + 1].e = "handler" /\ log[i + 1].t = log[i].t
          /\ log[i].e = "handler" =>
                /\ (i > 1 /\ log[i - 1].e = "extract" /\ log[i - 1].t = log[i].t)
                /\ IF log[i].r = "err"
                   THEN i = Len(log) \/ log[i + 1].t > log[i].t
                   ELSE i < Len(log) /\ log[i + 1].e = "store" /\ log[i + 1].t = log[i].t
          /\ log[i].e = "store" =>
                /\ (i > 1 /\ log[i - 1].e = "handler" /\ log[i - 1].t = log[i].t)
                /\ (i = Len(log) \/ log[i + 1].t > log[i].t)
    /\ log # <<>> =>
          LET l == log[Len(log)]
          IN  /\ l.e = "extract" => RetKind = "extract"
              /\ l.e = "handler" => RetKind = "handler"
              /\ l.e = "store" => RetKind \in {"ok", "InvalidReturnValueOfCallback"}

C15_Witness ==
    /\ pc = "invoke"
    /\ Len(log) = 5
    /\ log[5].e = "handler"
    /\ RetKind = "handler"
    /\ value[log[5].u] = StrVal(<<"x">>)

\* C16: a handler that returns no value makes the callback return success
\* with the value slot as it was; a handler that returns a value of a kind
\* the option does not accept (a non-string for a string option) makes it
\* return an error, the value slot again as it was.
C16_NoValueNoWrite ==
    [][pc = "invoke" =>
          LET n == Len(log')
              h == log'[n - 1]
              kept == value' = value /\ setted' = setted
          IN  log'[n].e = "store" =>
                /\ h.r = "none" => (kept /\ ret' = Ok)
                /\ (h.r = "bool" /\ set[h.u].ty = "s")
                      => (kept /\ ret' = Err("InvalidReturnValueOfCallback", {}))
                /\ log'[n].r = "err" => kept]_vars

C16_Witness ==
    /\ pc = "invoke"
    /\ Len(log) = 6
    /\ log[5].r = "none"
    /\ log[6].e = "store"
    /\ log[5].u = log[2].u
    /\ value[log[5].u] = StrVal(<<"x">>)
    /\ set[log[5].u].ty = "s"

\* C17: a policy with its default settings, on which CombinedOption was not
\* enabled, never matches a token as the combination of several options.
\* Neither policy has a setting for its styles, so every parse runs with the
\* default settings.
C17_CombinedOffByDefault ==
    \A i \in 1..Len(tokClass) :
        tokClass[i].c = "opt" =>
            /\ tokClass[i].sty # "CombinedOption"
            /\ Len(tokClass[i].ctx) = 1

\* C18: whatever the outcome of DelayPolicy.parse, the queue of saved match
\* contexts is empty when parse returns, so that no parse starts with
\* contexts of an earlier parse in the queue.
C18_QueueEmptyOnReturn ==
    (policy = "delay" /\ pc = "done") => contexts = <<>>

\* the operations of the history that ran the commit explicitly
IsRunOp(h) == h.op \in {"run", "run_and_commit_the_change"}

\* C19: whatever is done with a commit (run, conversion into another commit
\* type, drop), the option it describes is inserted at most once: a drop
\* without run inserts it once, a drop after a run or of a converted commit
\* inserts nothing, a repeated run_and_commit_the_change returns the same uid.
C19_InsertedAtMostOnce ==
    pc = "commit" =>
    LET hist == commit.hist
    IN  /\ commit.ins <= 1
        /\ \A i \in 1..Len(hist) :
              /\ (hist[i].op = "drop" /\ hist[i].res # "panic"
                    /\ \A j \in 1..(i - 1) : ~IsRunOp(hist[j]))
                   => (hist[i].res = "ok" /\ commit.ins = 1)
              /\ (hist[i].op = "drop" /\ \E j \in 1..(i - 1) : IsRunOp(hist[j]) /\ hist[j].res = "ok")
                   => hist[i].res = "none"
              /\ hist[i].op = "convert" => hist[i].res \in {"none", "panic"}
        /\ \A i, j \in 1..Len(hist) :
              (IsRunOp(hist[i]) /\ IsRunOp(hist[j]) /\ hist[i].res = "ok" /\ hist[j].res = "ok")
                  => hist[i].uid = hist[j].uid

C19_Witness ==
    /\ pc = "commit"
    /\ Len(commit.hist) = 3
    /\ commit.hist[1] = Op("run_and_commit_the_change", "ok", 1)
    /\ commit.hist[2] = Op("run_and_commit_the_change", "ok", 1)
    /\ commit.hist[3] = Op("drop", "none", 0)
    /\ commit.ins = 1

\* C20: no failure during option creation or commit aborts the process: a
\* creator given a configuration of another type and a commit dropped
\* without run whose creation fails report an error value.
C20_NoPanic == pc = "commit" => ~commit.panicked

\* the calls of create_with in the history of the commit
CreateCalls == {i \in 1..Len(commit.hist) : commit.hist[i].op = "create_with"}

\* C21: create_with of the string and main creators returns the
\* deactivate-style-not-supported error when the configuration requests
\* deactivate style, the string creators return the missing-prefix error for
\* a configuration without prefix (that does not request deactivate style),
\* and no option is produced in either case.
C21_CreatorErrors ==
    pc = "commit" =>
    \A i \in CreateCalls :
        LET h == commit.hist[i]
        IN  /\ h.cfg.deact => h.res = "NotSupportDeactivateStyle"
            /\ (h.cr # "MainCreator" /\ ~h.cfg.pre /\ ~h.cfg.deact /\ h.res # "panic")
                  => h.res = "MissingOptionPrefix"
            /\ (h.cfg.deact \/ (h.cr # "MainCreator" /\ ~h.cfg.pre)) => h.res # "ok"

C21_Witness ==
    /\ pc = "commit"
    /\ Len(commit.hist) = 3
    /\ \A i \in 1..3 : commit.hist[i].op = "create_with"
    /\ commit.hist[1].cr = "StrCreator" /\ commit.hist[1].res = "NotSupportDeactivateStyle"
    /\ commit.hist[2].cr = "MainCreator" /\ commit.hist[2].res = "NotSupportDeactivateStyle"
    /\ commit.hist[3].cr = "StrCreator" /\ commit.hist[3].res = "MissingOptionPrefix"

\* C22: the options of a set have pairwise different uids, and every option
\* keeps the uid it was given when it was inserted.
C22_UidUniqueAndStable ==
    pc = "opt" =>
    /\ \A i, j \in 1..Len(opts) : i # j => opts[i].uid # opts[j].uid
    /\ \A i \in 1..Len(opts) : opts[i].uid = opts[i].assigned

\* arguments the match_ functions of an option are asked about
SomeNames == {<<"m">>, <<"s">>, <<"a">>, <<"w">>}

SomePrefixes == {<<>>, <<"-">>, <<"+">>}

\* C23: whatever setters were called on a MainOpt, it stays optional, without
\* index, alias, prefix and default value, it matches every name and index and
\* no prefix and alias, its check succeeds and reset_value nulls its value.
C23_MainOptFixed ==
    pc = "opt" =>
    \A i \in 1..Len(opts) :
        LET o == opts[i]
        IN  IsMain(o) =>
            /\ get_optional(o)
            /\ get_index(o) = None
            /\ get_alias(o) = None
            /\ get_prefix(o) = <<>>
            /\ get_default_value(o) = Null
            /\ \A n \in SomeNames : match_name(o, n)
            /\ \A total \in 0..2, current \in 0..3 : match_index(o, total, current)
            /\ \A p \in SomePrefixes : ~match_prefix(o, p)
            /\ \A p \in SomePrefixes, n \in SomeNames : ~match_alias(o, p, n)
            /\ Opt_check(o)
            /\ o.last = "reset_value" => o.value = Null

C23_Witness ==
    /\ pc = "opt"
    /\ parses = 3
    /\ Len(opts) >= 1
    /\ IsMain(opts[1])
    /\ opts[1].last = "reset_value"
    /\ opts[1].uid # opts[1].assigned

Deciding == {i \in 1..Len(getopt.outs) :
                \/ getopt.outs[i] \in {"true", "error"}
                \/ (getopt.outs[i] = "special" /\ i = Len(getopt.outs))}

\* C24: getopt_impl runs the parsers in order, each on the full argument
\* list, up to the first one that returns true (returned with its set) or
\* fails with an error that is not skipped (returned as the error); a parser
\* that returns false, or fails with a special error while not the last, is
\* skipped; if every parser returns false the result is None.
C24_FirstTrueParser ==
    (pc = "getopt" /\ getopt.res # <<"running">>) =>
    LET last == IF Deciding = {} THEN Len(getopt.outs) ELSE SetMin(Deciding)
    IN  /\ Len(getopt.ran) = last
        /\ \A i \in 1..last : getopt.ran[i] = [parser |-> i, args |-> getopt.args]
        /\ getopt.res = IF Deciding = {} THEN <<"none">>
                        ELSE IF getopt.outs[last] = "true" THEN <<"some", last>>
                        ELSE <<"err", last>>
        /\ (\A i \in 1..Len(getopt.outs) : getopt.outs[i] = "false") => getopt.res = <<"none">>

C24_Witness ==
    /\ pc = "getopt"
    /\ getopt.outs = <<"false", "special", "true">>
    /\ getopt.args = <<"a", "b">>
    /\ getopt.res = <<"some", 3>>
    /\ Len(getopt.ran) = 3

\* a joined text cut at every " | "
RECURSIVE SplitBar(_, _, _)
SplitBar(msg, cur, acc) ==
    IF msg = <<>> THEN Append(acc, cur)
    ELSE IF Len(msg) >= Len(Bar) /\ SubSeq(msg, 1, Len(Bar)) = Bar
         THEN SplitBar(SubSeq(msg, Len(Bar) + 1, Len(msg)), <<>>, Append(acc, cur))
         ELSE SplitBar(Tail(msg), Append(cur, Head(msg)), acc)

\* the floating positionals that are force-required and unset
UnsetFloats ==
    {u \in 1..Len(set) :
        /\ set[u].ty = "p"
        /\ set[u].idx.k \in {"Except", "Greater", "Less", "AnyWhere"}
        /\ set[u].force /\ ~setted[u]}

\* every fixed position has an option that is set or only optional options
FixedGroupsPass == \A i \in PosIndexes(set) : PosGroupValid(set, setted, i)

\* C25: when every fixed-index group passes, pos_check fails exactly when a
\* floating positional is force-required and unset, and the text of the error
\* is the hints of all of these, joined by " | ".
C25_FloatsCheckedEach ==
    pc = "check" =>
    \A i \in 1..Len(log) :
        (log[i].e = "pos_check" /\ FixedGroupsPass) =>
            /\ (log[i].r # Ok) <=> (UnsetFloats # {})
            /\ (log[i].r # Ok) =>
                  LET parts == SplitBar(log[i].t, <<>>, <<>>)
                  IN  /\ Len(parts) = Cardinality(UnsetFloats)
                      /\ {parts[k] : k \in 1..Len(parts)} = {set[u].name : u \in UnsetFloats}

C25_Witness ==
    /\ pc = "check"
    /\ Len(log) >= 1
    /\ log[1].e = "pos_check"
    /\ FixedGroupsPass
    /\ Cardinality(UnsetFloats) = 2
    /\ log[1].t = <<"g", " ", "|", " ", "w">>

\* the option loop has gone through all the tokens and nothing ran after it
LoopDone == pc = "opts" /\ idx > Len(args)

\* the tokens of the positions i.. that the loop classified as non-option
RECURSIVE NoaTokens(_)
NoaTokens(i) ==
    IF i > Len(tokClass) \/ i > Len(args) THEN <<>>
    ELSE (IF tokClass[i].c = "noa" THEN <<args[i]>> ELSE <<>>) \o NoaTokens(i + 1)

\* C27: after the option loop of either policy every token is in exactly one
\* class: matched as an option, taken as the value of the matched option
\* directly before it, or non-option argument; the NOA list is the tokens of
\* the third class, each once, in their original order.
C27_TokensPartitioned ==
    LoopDone =>
    /\ Len(tokClass) = Len(args)
    /\ \A i \in 1..Len(tokClass) :
          /\ tokClass[i].c \in {"opt", "val", "noa"}
          /\ tokClass[i].c = "opt" => \E k \in 1..Len(opt_styles) : StyleMatches(k, i)
          /\ tokClass[i].c = "val" =>
                /\ i > 1
                /\ tokClass[i - 1].c = "opt"
                /\ tokClass[i - 1].sty = "Argument"
                /\ StyleMatches(StyleIdx("Argument"), i - 1)
          /\ tokClass[i].c = "noa" => ~\E k \in 1..Len(opt_styles) : StyleMatches(k, i)
    /\ noa = NoaTokens(1)

C27_Witness ==
    /\ LoopDone
    /\ policy = "forward"
    /\ Len(args) = 2
    /\ tokClass[1].c = "noa"
    /\ tokClass[2].c = "opt"
    /\ noa = <<args[1]>>

IsGuess(ev) == ev.e = "guess"

\* the NOA guesses of the running parse, in order
Guesses == SelectSeq(log, IsGuess)

\* what DelayPolicy::parse offers for n non-option arguments: the first to
\* the Cmd style, each index to the Pos style, then index 0 to the Main style
NoaPlan(n) ==
    (IF n >= 1
     THEN <<Guess("cmd", 1, n)>> \o [i \in 1..n |-> Guess("pos", i, n)]
     ELSE <<>>) \o <<Guess("main", 0, n)>>

\* C28: with n >= 1 non-option arguments DelayPolicy.parse offers NOA 1 to the
\* Cmd options once, then the NOAs 1..n in increasing order to the Pos
\* options, each once, and after all Pos processing offers index 0 with the
\* whole NOA list to the Main options once; with n = 0 only the Main offer
\* is made.  A parse that ends early has made a prefix of these offers.
C28_NoaOrder ==
    (policy = "delay" /\ pc # "idle") =>
    LET plan == NoaPlan(Len(noa))
    IN  /\ Len(Guesses) <= Len(plan)
        /\ \A i \in 1..Len(Guesses) : Guesses[i] = plan[i]
        /\ (pc = "post" \/ RetKind = "ok") => Guesses = plan
        /\ \A i, j \in 1..Len(log) :
              (log[i].e = "guess" /\ log[i].k = "main" /\ log[j].k \in {"cmd", "pos"}) => j < i

C28_Witness ==
    /\ policy = "delay"
    /\ RetKind = "ok"
    /\ Len(noa) = 2
    /\ Guesses = <<Guess("cmd", 1, 2), Guess("pos", 1, 2), Guess("pos", 2, 2), Guess("main", 0, 2)>>
    /\ \E i \in 1..Len(log) : log[i].e = "invoke" /\ log[i].k = "pos"

\* C29: when DelayPolicy.parse has returned, with success or with any error,
\* the InvokeService it took out of the Services at its start is registered
\* there again.
C29_InvokeServiceRestored == (policy = "delay" /\ pc = "done") => invReg

\* C30: a DelayPolicy.parse that fails with the strict-mode unknown-option
\* error has invoked no handler, also not of the options matched before the
\* unknown token; a ForwardPolicy.parse that fails so has invoked the
\* handlers of the options matched before that token.
C30_NoHandlerBeforeStrictError ==
    (pc = "done" /\ RetKind = "sp_invalid_option_name") =>
    /\ policy = "delay" => \A i \in 1..Len(log) : log[i].e # "invoke"
    /\ policy = "forward" =>
          /\ Len(OptInvokes) = Len(Matched)
          /\ \A n \in 1..Len(Matched) :
                /\ OptInvokes[n].u = Matched[n].uid
                /\ OptInvokes[n].t = Matched[n].tok
          /\ \A i \in 1..Len(log) : log[i].e = "invoke" => log[i].k = "opt"

C30_Witness ==
    /\ pc = "done"
    /\ RetKind = "sp_invalid_option_name"
    /\ policy = "forward"
    /\ Len(args) = 2
    /\ Len(Matched) >= 1
    /\ Len(OptInvokes) >= 1

====
